---- MODULE Spec2Model ----
(***************************************************************************)
(* laundrevity/strix: the streaming response decoder (Agent.get_response)  *)
(* and the tool-orchestration loop (Agent.__call__) of src/core/Agent.py,  *)
(* with the loop of its subclass (SelfImprovingAgent.__call__), the tools  *)
(* of src/tools called on their own (replace, git_command, web_search),    *)
(* and SelfImprovingAgent as an async context manager.                     *)
(*                                                                         *)
(* Texts are sequences of one-character strings, so that concatenation,    *)
(* emptiness and the lone-newline test are what they are in the code.      *)
(* An optional value (a JSON key that may be missing, a dict key not yet   *)
(* set) is a sequence of length 0 or 1: None, or Some(v).                  *)
(***************************************************************************)
EXTENDS Integers, Sequences, FiniteSets, TLC

VARIABLES
    \* ---- Agent.get_response: one turn's stream and the frame's locals
    gr_pc,        \* "idle" | "streaming" | "returned" | "raised" | "fell_through"
                  \* | "cancelled"
    received,     \* the lines read from resp.content so far, in arrival order
    locals,       \* started_reasoning, started_content, started_tool_calls,
                  \* n_tokens, tool_call_index, message, out (what was written)
    n_sessions,   \* number of ClientSession objects open
    \* ---- Agent.__call__: the orchestration loop
    pc,           \* "get_response" | "dispatch" | "read" | "faulted"
    messages,     \* self.messages: the ConversationState
    response,     \* the Message get_response last returned
    n_tokens,     \* __call__'s n_tokens
    tc_i,         \* position of the for loop over tool_calls (1-based)
    stdin,        \* "open" | "eof": the state of the input channel
    n_requests,   \* number of requests posted so far
    fault,        \* the exception that left __call__, "" while it runs
    invoked,      \* the ids of the calls whose tool was invoked, in order
    \* ---- SelfImprovingAgent.__call__
    agent,        \* the class of the running agent
    tasks,        \* tool_coroutines of the turn, as asyncio.gather runs them
    completed,    \* positions of the turn's coroutines, in completion order
    \* ---- the tools of src/tools, called on their own
    fs,           \* the files: resolved path -> content, None when missing
    procs,        \* the subprocesses launched, in order
    tool_call,    \* the tool call made last: its name and arguments
    tool_result,  \* what that call returned, and the file operations it made
    n_calls,      \* number of tool calls made
    \* ---- SelfImprovingAgent as an async context manager
    ctx,          \* where `async with agent` is: "constructed" | "body" |
                  \* "awaiting" | "base_aexit" | "exited"
    transports,   \* the stdin / stdout transports: "unopened" | "open" | "closed"
    enable_self_improvement,
    _should_stop_improvement,
    interaction_count,
    improvement_task  \* the background task: its state, whether a
                      \* cancellation is pending, and where cancel() found it

vars == <<gr_pc, received, locals, n_sessions, pc, messages, response, n_tokens, tc_i,
          stdin, n_requests, fault, invoked, agent, tasks, completed,
          fs, procs, tool_call, tool_result, n_calls,
          ctx, transports, enable_self_improvement, _should_stop_improvement,
          interaction_count, improvement_task>>

dec_vars == <<gr_pc, received, locals, n_sessions>>
si_vars == <<agent, tasks, completed>>
tool_vars == <<fs, procs, tool_call, tool_result, n_calls>>
life_vars == <<ctx, transports, enable_self_improvement,
               _should_stop_improvement, interaction_count, improvement_task>>
loop_vars == <<pc, messages, response, n_tokens, tc_i, stdin, n_requests,
               fault, invoked, agent, tasks, completed>>

-----------------------------------------------------------------------------
(* Bounds *)

\* longest stream (lines before the terminal one) a turn is fed
MaxLines == 3

\* most requests the loop posts in a run
MaxRequests == 3

-----------------------------------------------------------------------------
(* Optional values and Python truthiness *)

None == <<>>
Some(v) == <<v>>
Present(o) == o # <<>>
Val(o) == o[1]

\* bool(x) of an optional text: a missing key, JSON null and "" are all falsy
TruthyText(o) == Present(o) /\ Val(o) # <<>>

NL == "\n"

\* the section delimiters of Agent.py
_THINKING == "THINKING"
_CONTENT == "CONTENT"
_TOOL_CALLS == "TOOLS"

-----------------------------------------------------------------------------
(* Fragments: the JSON object of one data line,                            *)
(* {choices: [{delta: {reasoning_content?, content?, tool_calls?},         *)
(*             finish_reason?}], timings?, usage?}                         *)

ToolInc(id, name, args) == [id |-> id, name |-> name, arguments |-> args]

Frag(rc, c, tc, fr, tm, us) ==
    [reasoning_content |-> rc, content |-> c, tool_calls |-> tc,
     finish_reason |-> fr, timings |-> tm, usage |-> us]

Timings(c, p, n) == [cache_n |-> c, prompt_n |-> p, predicted_n |-> n]
Usage(t) == [total_tokens |-> t]

\* a delta with no tail
DeltaOnly(rc, c, tc) == Frag(rc, c, tc, None, None, None)
\* a tail (finish_reason / counters) with an empty delta
TailOnly(fr, tm, us) == Frag(None, None, None, fr, tm, us)

IntroC1 == Some(ToolInc(Some("c1"), "echo", <<"{">>))
IntroC2 == Some(ToolInc(Some("c2"), "echo", <<"{">>))
Cont == Some(ToolInc(None, "", <<"}">>))

\* fragments carrying one increment category
SingleFrags ==
    { DeltaOnly(Some(<<"r">>), None, None),
      DeltaOnly(None, Some(<<NL>>), None),
      DeltaOnly(None, Some(<<"c">>), None),
      DeltaOnly(None, None, IntroC1),
      DeltaOnly(None, None, IntroC2),
      DeltaOnly(None, None, Cont) }

\* fragments carrying several categories, or an empty one beside another
MixedFrags ==
    { DeltaOnly(Some(<<"r">>), Some(<<"c">>), None),
      DeltaOnly(Some(<<>>), Some(<<"c">>), None),
      DeltaOnly(Some(<<"r">>), None, IntroC1),
      DeltaOnly(None, Some(<<"c">>), IntroC1),
      DeltaOnly(None, Some(<<NL>>), Cont),
      DeltaOnly(None, Some(<<>>), Cont) }

\* fragments carrying a turn-completion marker and/or counters
TailFrags ==
    { TailOnly(Some("stop"), None, Some(Usage(42))),
      TailOnly(Some("stop"), Some(Timings(1, 2, 3)), None),
      TailOnly(Some("stop"), Some(Timings(1, 2, 3)), Some(Usage(42))),
      TailOnly(None, None, Some(Usage(42))),
      TailOnly(None, Some(Timings(1, 2, 3)), None),
      TailOnly(Some("tool_calls"), None, None),
      Frag(None, Some(<<"c">>), None, Some("stop"), None, Some(Usage(7))),
      TailOnly(None, None, None) }

Fragments == SingleFrags \cup MixedFrags \cup TailFrags

\* a line of resp.content: a data line holding a fragment, or a line that
\* does not start with "data: " (blank separator, comment)
DataLine(f) == [kind |-> "data", frag |-> f]
OtherLine == [kind |-> "other", frag |-> TailOnly(None, None, None)]
\* a data line whose payload is neither [DONE] nor valid JSON
MalformedLine == [kind |-> "malformed", frag |-> TailOnly(None, None, None)]

-----------------------------------------------------------------------------
(* Agent.get_response: the frame's locals and the fold of one fragment *)

InitLocals ==
    [started_reasoning |-> FALSE,
     started_content |-> FALSE,
     started_tool_calls |-> FALSE,
     n_tokens |-> 0,
     tool_call_index |-> -1,
     message |-> [role |-> "assistant", reasoning_content |-> None,
                  content |-> None, tool_calls |-> None],
     out |-> <<>>,
     raised |-> FALSE]

\* self.write(data): what is written, one entry per call
Write(l, text) == [l EXCEPT !.out = Append(@, text)]

\* ReasoningBranch writing the section delimiter before every increment
ReasoningBranch_HeaderEachTime(l, rc) ==
    LET l1 == IF ~l.started_reasoning
              THEN [Write(l, <<_THINKING, " ">>) EXCEPT
                        !.started_reasoning = TRUE,
                        !.message.reasoning_content = Some(rc)]
              ELSE [Write(l, <<_THINKING, " ">>) EXCEPT
                        !.message.reasoning_content = Some(Val(@) \o rc)]
    IN  Write(l1, rc)

\* lines 163-170
ReasoningBranch(l, rc) ==
    LET l1 == IF ~l.started_reasoning
              THEN [Write(l, <<_THINKING, " ">>) EXCEPT
                        !.started_reasoning = TRUE,
                        !.message.reasoning_content = Some(rc)]
              ELSE [l EXCEPT !.message.reasoning_content = Some(Val(@) \o rc)]
    IN  Write(l1, rc)

\* ContentBranch with the else branch assigning where the code appends
ContentBranch_Overwrites(l, c) ==
    LET l1 == IF ~l.started_content
              THEN [Write(l, <<NL, NL, _CONTENT, " ">>) EXCEPT
                        !.started_content = TRUE,
                        !.message.content = Some(c)]
              ELSE [l EXCEPT !.message.content = Some(c)]
    IN  Write(l1, c)

\* lines 175-182
ContentBranch(l, c) ==
    LET l1 == IF ~l.started_content
              THEN [Write(l, <<NL, NL, _CONTENT, " ">>) EXCEPT
                        !.started_content = TRUE,
                        !.message.content = Some(c)]
              ELSE [l EXCEPT !.message.content = Some(Val(@) \o c)]
    IN  Write(l1, c)

\* a tool_calls entry of the message, lines 197-204
ToolCall(id, name, args) ==
    [type |-> "function", id |-> id,
     function |-> [name |-> name, arguments |-> args]]

\* PyIndex always taking the first entry
PyIndex_First(n, i) == IF n > 0 THEN 1 ELSE 0

\* list[i] of Python for a list of length n: the 1-based position, 0 when
\* the index is out of range (IndexError)
PyIndex(n, i) ==
    IF 0 <= i /\ i < n THEN i + 1
    ELSE IF i < 0 /\ -i <= n THEN n + i + 1
    ELSE 0

\* bool(tc.get("id")), line 191
HasId(tc) == Present(tc.id) /\ Val(tc.id) # ""

\* ToolCallsBranch opening an entry for an increment that has none to extend
ToolCallsBranch_CreatesEntry(l, tc) ==
    LET args_data == tc.arguments
        l1 == IF ~l.started_tool_calls
              THEN [Write(l, <<NL, NL, _TOOL_CALLS, " ", " ">>) EXCEPT
                        !.started_tool_calls = TRUE,
                        !.message.tool_calls = Some(<<>>)]
              ELSE l
        calls == Val(l1.message.tool_calls)
    IN  IF HasId(tc) \/ calls = <<>>
        THEN LET idx == l1.tool_call_index + 1
                 l2 == [l1 EXCEPT !.tool_call_index = idx]
                 l3 == IF idx # 0 THEN Write(l2, <<")", " ">>) ELSE l2
                 l4 == [l3 EXCEPT !.message.tool_calls =
                            Some(Append(calls,
                                ToolCall(IF HasId(tc) THEN Val(tc.id) ELSE "",
                                         tc.name, args_data)))]
             IN  Write(l4, <<tc.name, "(">> \o args_data)
        ELSE LET k == PyIndex(Len(calls), l1.tool_call_index)
             IN  IF k = 0
                 THEN [l1 EXCEPT !.raised = TRUE]
                 ELSE Write(
                        [l1 EXCEPT !.message.tool_calls =
                            Some([calls EXCEPT ![k].function.arguments =
                                      @ \o args_data])],
                        args_data)

\* ToolCallsBranch with tool_call_index left at the first entry
ToolCallsBranch_StaleIndex(l, tc) ==
    LET args_data == tc.arguments
        l1 == IF ~l.started_tool_calls
              THEN [Write(l, <<NL, NL, _TOOL_CALLS, " ", " ">>) EXCEPT
                        !.started_tool_calls = TRUE,
                        !.message.tool_calls = Some(<<>>)]
              ELSE l
        calls == Val(l1.message.tool_calls)
    IN  IF HasId(tc)
        THEN LET idx == l1.tool_call_index + 1
                 l2 == [l1 EXCEPT !.tool_call_index = 0]
                 l3 == IF idx # 0 THEN Write(l2, <<")", " ">>) ELSE l2
                 l4 == [l3 EXCEPT !.message.tool_calls =
                            Some(Append(calls,
                                ToolCall(Val(tc.id), tc.name, args_data)))]
             IN  Write(l4, <<tc.name, "(">> \o args_data)
        ELSE LET k == PyIndex(Len(calls), l1.tool_call_index)
             IN  IF k = 0
                 THEN [l1 EXCEPT !.raised = TRUE]
                 ELSE Write(
                        [l1 EXCEPT !.message.tool_calls =
                            Some([calls EXCEPT ![k].function.arguments =
                                      @ \o args_data])],
                        args_data)

\* lines 185-213
ToolCallsBranch(l, tc) ==
    LET args_data == tc.arguments
        l1 == IF ~l.started_tool_calls
              THEN [Write(l, <<NL, NL, _TOOL_CALLS, " ", " ">>) EXCEPT
                        !.started_tool_calls = TRUE,
                        !.message.tool_calls = Some(<<>>)]
              ELSE l
        calls == Val(l1.message.tool_calls)
    IN  IF HasId(tc)
        THEN LET idx == l1.tool_call_index + 1
                 l2 == [l1 EXCEPT !.tool_call_index = idx]
                 l3 == IF idx # 0 THEN Write(l2, <<")", " ">>) ELSE l2
                 l4 == [l3 EXCEPT !.message.tool_calls =
                            Some(Append(calls,
                                ToolCall(Val(tc.id), tc.name, args_data)))]
             IN  Write(l4, <<tc.name, "(">> \o args_data)
        ELSE LET k == PyIndex(Len(calls), l1.tool_call_index)
             IN  IF k = 0
                 THEN [l1 EXCEPT !.raised = TRUE]
                 ELSE Write(
                        [l1 EXCEPT !.message.tool_calls =
                            Some([calls EXCEPT ![k].function.arguments =
                                      @ \o args_data])],
                        args_data)

\* ApplyDelta without the lone-newline exclusion of line 174
ApplyDelta_KeepsNewline(l, f) ==
    IF TruthyText(f.reasoning_content)
    THEN ReasoningBranch(l, Val(f.reasoning_content))
    ELSE IF TruthyText(f.content)
         THEN ContentBranch(l, Val(f.content))
         ELSE IF Present(f.tool_calls)
              THEN ToolCallsBranch(l, Val(f.tool_calls))
              ELSE l

\* ApplyDelta with the content test an if of its own, not an elif
ApplyDelta_NoElif(l, f) ==
    LET l1 == IF TruthyText(f.reasoning_content)
              THEN ReasoningBranch(l, Val(f.reasoning_content))
              ELSE l
        content == IF Present(f.content) THEN Val(f.content) ELSE <<NL>>
    IN  IF content # <<NL>> /\ content # <<>>
        THEN ContentBranch(l1, content)
        ELSE IF Present(f.tool_calls) /\ ~TruthyText(f.reasoning_content)
             THEN ToolCallsBranch(l1, Val(f.tool_calls))
             ELSE l1

\* lines 162-213: the delta of a fragment, by the if / elif / elif chain
ApplyDelta(l, f) ==
    IF TruthyText(f.reasoning_content)
    THEN ReasoningBranch(l, Val(f.reasoning_content))
    ELSE LET content == IF Present(f.content) THEN Val(f.content) ELSE <<NL>>
         IN  IF content # <<NL>> /\ content # <<>>
             THEN ContentBranch(l, content)
             ELSE IF Present(f.tool_calls)
                  THEN ToolCallsBranch(l, Val(f.tool_calls))
                  ELSE l

\* TokenCount leaving predicted_n out of the sum
TokenCount_NoPredicted(l, f) ==
    IF Present(f.timings)
    THEN Val(f.timings).cache_n + Val(f.timings).prompt_n
    ELSE IF Present(f.usage)
         THEN Val(f.usage).total_tokens
         ELSE l.n_tokens

\* lines 218-225
TokenCount(l, f) ==
    IF Present(f.timings)
    THEN Val(f.timings).cache_n + Val(f.timings).prompt_n
            + Val(f.timings).predicted_n
    ELSE IF Present(f.usage)
         THEN Val(f.usage).total_tokens
         ELSE l.n_tokens

\* lines 215-225
ApplyTail(l, f) ==
    IF Present(f.finish_reason) /\ Val(f.finish_reason) # ""
    THEN LET l1 == IF Val(f.finish_reason) = "tool_calls"
                   THEN Write(l, <<")">>) ELSE l
         IN  [l1 EXCEPT !.n_tokens = TokenCount(l1, f)]
    ELSE l

\* lines 160-225: one data line whose payload is a JSON object
ApplyFragment(l, f) ==
    LET l1 == ApplyDelta(l, f)
    IN  IF l1.raised THEN l1 ELSE ApplyTail(l1, f)

-----------------------------------------------------------------------------
(* Agent.get_response as steps over the lines of one stream *)

\* async with ClientSession() as session, line 135: entering opens a session
Acquire(n) == n + 1

\* Released leaving the session open
Released_Leaks(n) == n

\* leaving the async with blocks of lines 135-138, by return or by
\* exception: __aexit__ closes the session
Released(n) == n - 1

Streaming == gr_pc = "streaming" /\ Len(received) < MaxLines

\* a data line holding a JSON object, lines 149-225
RecvFragment(f) ==
    /\ Streaming
    /\ received' = Append(received, DataLine(f))
    /\ locals' = ApplyFragment(locals, f)
    /\ gr_pc' = IF locals'.raised THEN "raised" ELSE "streaming"
    /\ n_sessions' = IF locals'.raised THEN Released(n_sessions) ELSE n_sessions
    /\ UNCHANGED loop_vars
    /\ UNCHANGED <<tool_vars, life_vars>>

\* RecvOther echoing a line break for the line
RecvOther_Writes ==
    /\ Streaming
    /\ received' = Append(received, OtherLine)
    /\ locals' = Write(locals, <<NL>>)
    /\ UNCHANGED <<gr_pc, n_sessions>>
    /\ UNCHANGED loop_vars
    /\ UNCHANGED <<tool_vars, life_vars>>

\* a line that does not start with "data: ", line 149
RecvOther ==
    /\ Streaming
    /\ received' = Append(received, OtherLine)
    /\ UNCHANGED <<locals, gr_pc, n_sessions>>
    /\ UNCHANGED loop_vars
    /\ UNCHANGED <<tool_vars, life_vars>>

\* RecvDone returning a fresh Message in place of the accumulated one
RecvDone_ReturnsFresh ==
    /\ gr_pc = "streaming"
    /\ locals' = Write(InitLocals, <<NL, NL>>)
    /\ gr_pc' = "returned"
    /\ n_sessions' = Released(n_sessions)
    /\ UNCHANGED received
    /\ UNCHANGED loop_vars
    /\ UNCHANGED <<tool_vars, life_vars>>

\* "data: [DONE]", lines 151-158
RecvDone ==
    /\ gr_pc = "streaming"
    /\ locals' = Write(locals, <<NL, NL>>)
    /\ gr_pc' = "returned"
    /\ n_sessions' = Released(n_sessions)
    /\ UNCHANGED received
    /\ UNCHANGED loop_vars
    /\ UNCHANGED <<tool_vars, life_vars>>

\* RecvMalformed dropping the line and reading on
RecvMalformed_Skips ==
    /\ gr_pc = "streaming"
    /\ Len(received) < MaxLines
    /\ received' = Append(received, MalformedLine)
    /\ UNCHANGED <<locals, gr_pc, n_sessions>>
    /\ UNCHANGED loop_vars
    /\ UNCHANGED <<tool_vars, life_vars>>

\* a data line whose payload json.loads rejects, line 160
RecvMalformed ==
    /\ gr_pc = "streaming"
    /\ received' = Append(received, MalformedLine)
    /\ locals' = [locals EXCEPT !.raised = TRUE]
    /\ gr_pc' = "raised"
    /\ n_sessions' = Released(n_sessions)
    /\ UNCHANGED loop_vars
    /\ UNCHANGED <<tool_vars, life_vars>>

\* resp.content is exhausted with no [DONE] line: the function ends, line 225
StreamEnd ==
    /\ gr_pc = "streaming"
    /\ gr_pc' = "fell_through"
    /\ n_sessions' = Released(n_sessions)
    /\ UNCHANGED <<received, locals>>
    /\ UNCHANGED loop_vars
    /\ UNCHANGED <<tool_vars, life_vars>>

\* a task that create_task has not made yet
NoTask == [state |-> "none", must_cancel |-> FALSE, cancelled_in |-> "none"]

\* the agent is constructed and `async with` has not been entered
NotEntered ==
    /\ ctx = "constructed"
    /\ transports = "unopened"
    /\ enable_self_improvement = FALSE
    /\ _should_stop_improvement = FALSE
    /\ interaction_count = 0
    /\ improvement_task = NoTask

\* no tool has been called on its own
ToolsIdle ==
    /\ fs = <<>>
    /\ procs = <<>>
    /\ tool_call = [name |-> "none"]
    /\ tool_result = [text |-> <<>>, ops |-> <<>>]
    /\ n_calls = 0

\* Agent.__init__, lines 30-34: the snapshot as a system Message when snap is
\* set, then the prompt
InitMessages(snap) ==
    (IF snap THEN <<[role |-> "system", content |-> <<"s">>]>> ELSE <<>>)
        \o <<[role |-> "user", content |-> <<"p">>]>>

\* the loop before its first request
LoopIdle ==
    /\ pc = "get_response"
    /\ response = InitLocals.message
    /\ n_tokens = 0
    /\ tc_i = 1
    /\ stdin = "open"
    /\ n_requests = 0
    /\ fault = ""
    /\ invoked = <<>>
    /\ tasks = <<>>
    /\ completed = <<>>

\* an agent constructed without a snapshot
InitLoop ==
    /\ LoopIdle
    /\ messages = InitMessages(FALSE)

\* the state on entry to the stream loop, lines 139-144
Init ==
    /\ gr_pc = "streaming"
    /\ received = <<>>
    /\ locals = InitLocals
    /\ n_sessions = Acquire(0)
    /\ agent = "Agent"
    /\ InitLoop
    /\ ToolsIdle
    /\ NotEntered

Next ==
    \/ \E f \in Fragments : RecvFragment(f)
    \/ RecvOther
    \/ RecvDone
    \/ RecvMalformed
    \/ StreamEnd

Spec == Init /\ [][Next]_vars

\* the task running get_response is cancelled while it awaits the next
\* line: CancelledError leaves the async with blocks of lines 135-138
Cancel ==
    /\ gr_pc = "streaming"
    /\ gr_pc' = "cancelled"
    /\ n_sessions' = Released(n_sessions)
    /\ UNCHANGED <<received, locals>>
    /\ UNCHANGED loop_vars
    /\ UNCHANGED <<tool_vars, life_vars>>

NextSession == Next \/ Cancel

\* get_response over one stream, with cancellation
SpecSession == Init /\ [][NextSession]_vars

-----------------------------------------------------------------------------
(* The stream as sent: what the claims about get_response are stated over *)

RECURSIVE Concat(_)
Concat(ss) == IF ss = <<>> THEN <<>> ELSE Head(ss) \o Concat(Tail(ss))

IsData(line) == line.kind = "data"

\* the fragments of the data lines read so far, in arrival order
Frags == [i \in 1 .. Len(SelectSeq(received, IsData)) |->
              SelectSeq(received, IsData)[i].frag]

Last(s) == s[Len(s)]

\* the text of an optional text, a missing one read as the empty text
TextOf(o) == IF Present(o) THEN Val(o) ELSE <<>>

\* the list of an optional list, a missing one read as the empty list
ListOf(o) == IF Present(o) THEN Val(o) ELSE <<>>

Categories == {"reasoning_content", "content", "tool_calls"}

\* the fragment carries at most one increment category
SingleCategory(f) == Cardinality({k \in Categories : Present(f[k])}) <= 1

HasReasoning(f) == Present(f.reasoning_content)
HasContent(f) == Present(f.content)
HasToolInc(f) == Present(f.tool_calls)
ReasoningOf(f) == Val(f.reasoning_content)
ContentOf(f) == Val(f.content)
LoneNewline(f) == HasContent(f) /\ ContentOf(f) = <<NL>>
NotLoneNewline(f) == HasContent(f) /\ ContentOf(f) # <<NL>>

\* all reasoning increments sent, concatenated in arrival order
AllReasoning ==
    LET s == SelectSeq(Frags, HasReasoning)
    IN  Concat([i \in 1 .. Len(s) |-> ReasoningOf(s[i])])

\* all content increments sent, concatenated in arrival order
AllContent ==
    LET s == SelectSeq(Frags, HasContent)
    IN  Concat([i \in 1 .. Len(s) |-> ContentOf(s[i])])

\* all content increments sent other than lone-newline ones
AllContentButLoneNewlines ==
    LET s == SelectSeq(Frags, NotLoneNewline)
    IN  Concat([i \in 1 .. Len(s) |-> ContentOf(s[i])])

AllSingleCategory == \A i \in 1 .. Len(Frags) : SingleCategory(Frags[i])

Returned == gr_pc = "returned"

-----------------------------------------------------------------------------
(* C1 *)

\* C1 as stated: for a stream of single-category fragments ended by [DONE],
\* the returned content is the concatenation of all content increments and
\* the returned reasoning_content that of all reasoning increments.
C1_ConcatOfAllIncrements ==
    (Returned /\ AllSingleCategory) =>
        /\ TextOf(locals.message.content) = AllContent
        /\ TextOf(locals.message.reasoning_content) = AllReasoning

\* C1 amended: for a stream of single-category fragments ended by [DONE], the
\* returned content is the concatenation, in arrival order, of all content
\* increments other than lone-newline ones, and the returned reasoning_content
\* is the concatenation, in arrival order, of all reasoning increments.
C1_ConcatExceptLoneNewlines ==
    (Returned /\ AllSingleCategory) =>
        /\ TextOf(locals.message.content) = AllContentButLoneNewlines
        /\ TextOf(locals.message.reasoning_content) = AllReasoning

\* a returned turn of single-category fragments in which two content
\* increments and a lone newline arrived
C1_Witness ==
    /\ Returned /\ AllSingleCategory
    /\ \E i \in 1 .. Len(Frags) : LoneNewline(Frags[i])
    /\ locals.message.content = Some(<<"c", "c">>)

-----------------------------------------------------------------------------
(* C2 *)

\* the tool-call increments sent, in arrival order
ToolIncs ==
    LET s == SelectSeq(Frags, HasToolInc)
    IN  [i \in 1 .. Len(s) |-> Val(s[i].tool_calls)]

CarriesId(inc) == Present(inc.id)

\* the position in incs of the k-th increment carrying an id
IntroPos(incs, k) ==
    CHOOSE p \in 1 .. Len(incs) :
        /\ CarriesId(incs[p])
        /\ Cardinality({q \in 1 .. p : CarriesId(incs[q])}) = k

\* the calls a sequence of tool-call increments introduces: one per increment
\* carrying an id, in first-seen order, its arguments the introducing
\* increment's text followed by that of every continuation before the next
\* increment carrying an id
IntroducedCalls(incs) ==
    LET N == Cardinality({p \in 1 .. Len(incs) : CarriesId(incs[p])})
        Stop(k) == IF k < N THEN IntroPos(incs, k + 1) ELSE Len(incs) + 1
    IN  [k \in 1 .. N |->
            LET p == IntroPos(incs, k)
            IN  [type |-> "function",
                 id |-> Val(incs[p].id),
                 function |->
                    [name |-> incs[p].name,
                     arguments |->
                        Concat([j \in 1 .. (Stop(k) - p) |->
                                    incs[p + j - 1].arguments])]]]

\* every fragment carrying a tool-call increment carries nothing else
ToolFragsCarryOnlyToolInc ==
    \A i \in 1 .. Len(Frags) : HasToolInc(Frags[i]) => SingleCategory(Frags[i])

\* C2: for a stream whose tool-call fragments carry only their tool-call
\* increment, the returned message's tool_calls has one entry per fragment
\* carrying an id, in first-seen order, and each entry's arguments are its
\* introducing fragment's text followed by the text of every continuation
\* fragment that arrives before the next fragment carrying an id.
C2_ToolCallsReassembled ==
    (Returned /\ ToolFragsCarryOnlyToolInc) =>
        ListOf(locals.message.tool_calls) = IntroducedCalls(ToolIncs)

\* a returned turn that introduced two calls, the first one continued
C2_Witness ==
    /\ Returned /\ ToolFragsCarryOnlyToolInc
    /\ Len(ListOf(locals.message.tool_calls)) = 2
    /\ locals.message.tool_calls[1][1].id = "c1"
    /\ locals.message.tool_calls[1][1].function.arguments = <<"{", "}">>
    /\ locals.message.tool_calls[1][2].id = "c2"

-----------------------------------------------------------------------------
(* C6, C7, C8: the token count *)

\* the line read last is a data line, and the turn has not faulted
LastIsFragment ==
    /\ gr_pc \in {"streaming", "returned"}
    /\ received # <<>>
    /\ IsData(Last(received))

LastFrag == Last(received).frag

HasFinish(f) == Present(f.finish_reason)
HasUsage(f) == Present(f.usage)
HasTimings(f) == Present(f.timings)
TimingsSum(f) ==
    Val(f.timings).cache_n + Val(f.timings).prompt_n + Val(f.timings).predicted_n

\* C6 as stated: when the fragment read last carries a finish_reason, usage
\* totals and timing counters, the token count is usage.total_tokens.
C6_UsagePreferred ==
    (LastIsFragment /\ HasFinish(LastFrag) /\ HasUsage(LastFrag)
        /\ HasTimings(LastFrag)) =>
        locals.n_tokens = Val(LastFrag.usage).total_tokens

\* C7 as stated: a fragment carrying usage or timings but no finish_reason
\* sets the token count.
C7_CountWithoutFinish ==
    (LastIsFragment /\ ~HasFinish(LastFrag)) =>
        /\ (HasUsage(LastFrag) /\ ~HasTimings(LastFrag)) =>
                locals.n_tokens = Val(LastFrag.usage).total_tokens
        /\ (HasTimings(LastFrag) /\ ~HasUsage(LastFrag)) =>
                locals.n_tokens = TimingsSum(LastFrag)

\* C8: after a fragment that carries a finish_reason, the token count is
\* usage.total_tokens when it has usage and no timings, and
\* cache_n + prompt_n + predicted_n when it has timings and no usage.
C8_TerminalTokenCount ==
    (LastIsFragment /\ HasFinish(LastFrag)) =>
        /\ (HasUsage(LastFrag) /\ ~HasTimings(LastFrag)) =>
                locals.n_tokens = Val(LastFrag.usage).total_tokens
        /\ (HasTimings(LastFrag) /\ ~HasUsage(LastFrag)) =>
                locals.n_tokens = TimingsSum(LastFrag)

\* a returned turn whose last fragment was terminal with usage alone, after
\* an earlier terminal fragment with timings alone
C8_Witness ==
    /\ Returned /\ LastIsFragment
    /\ HasFinish(LastFrag) /\ HasUsage(LastFrag) /\ ~HasTimings(LastFrag)
    /\ locals.n_tokens = 42
    /\ \E i \in 1 .. Len(Frags) - 1 :
            HasFinish(Frags[i]) /\ HasTimings(Frags[i]) /\ ~HasUsage(Frags[i])

-----------------------------------------------------------------------------
(* C9, C10: what one fragment does to the message *)

\* this step reads a data line holding a fragment
ReadsFragment ==
    /\ gr_pc = "streaming"
    /\ Len(received') = Len(received) + 1
    /\ IsData(Last(received'))

\* the fragment this step reads
ThisFrag == Last(received').frag

ContentHeader == <<NL, NL, _CONTENT, " ">>

\* the content section delimiter is among the writes so far
ContentStartSignalled == \E i \in 1 .. Len(locals.out) : locals.out[i] = ContentHeader

ReasoningUnchanged ==
    locals'.message.reasoning_content = locals.message.reasoning_content
ContentUnchanged == locals'.message.content = locals.message.content
ToolCallsUnchanged == locals'.message.tool_calls = locals.message.tool_calls

\* C9: a fragment whose content increment is a lone newline leaves the
\* accumulated content as it was, leaves started_content as it was, and does
\* not write the content section delimiter, wherever it occurs in the stream.
C9_LoneNewlineIgnored ==
    [][(ReadsFragment /\ LoneNewline(ThisFrag)) =>
            /\ ContentUnchanged
            /\ locals'.started_content = locals.started_content
            /\ ContentStartSignalled' = ContentStartSignalled]_vars

\* lone newlines arrived before any content and after it: the one before
\* left content unstarted, and the content is that of the other increments
C9_Witness ==
    /\ Len(Frags) = 3
    /\ LoneNewline(Frags[1]) /\ LoneNewline(Frags[3])
    /\ Frags[2].content = Some(<<"c">>)
    /\ locals.message.content = Some(<<"c">>)
    /\ locals.started_content

\* the three increments of a fragment as the precedence rule reads them
EffectiveContent(f) ==
    HasContent(f) /\ ContentOf(f) # <<>> /\ ContentOf(f) # <<NL>>

\* the reasoning increment r is appended to reasoning_content
ReasoningAppended(r) ==
    TextOf(locals'.message.reasoning_content)
        = TextOf(locals.message.reasoning_content) \o r

\* the content increment c is appended to content
ContentAppended(c) ==
    TextOf(locals'.message.content) = TextOf(locals.message.content) \o c

\* the tool-call increment is routed to tool-call accumulation: one carrying
\* an id adds an entry, one lacking an id extends the last entry's arguments
\* (and faults the turn when there is no entry)
ToolIncRouted(inc) ==
    LET before == ListOf(locals.message.tool_calls)
        after == ListOf(locals'.message.tool_calls)
    IN  IF CarriesId(inc)
        THEN after = Append(before,
                        [type |-> "function", id |-> Val(inc.id),
                         function |-> [name |-> inc.name,
                                       arguments |-> inc.arguments]])
        ELSE IF before = <<>>
             THEN gr_pc' = "raised" /\ after = <<>>
             ELSE after = [before EXCEPT ![Len(before)].function.arguments =
                                @ \o inc.arguments]

\* at most one of reasoning_content, content and tool_calls is modified
AtMostOneModified ==
    Cardinality({k \in Categories :
                    locals'.message[k] # locals.message[k]}) <= 1

\* C10 as stated: a present reasoning increment is appended and nothing else
\* of the fragment is applied; otherwise a non-empty, non-lone-newline content
\* increment is appended; otherwise a present tool-call increment is routed
\* to tool-call accumulation; no fragment modifies more than one field.
C10_PrecedencePresentReasoning ==
    [][ReadsFragment =>
        /\ AtMostOneModified
        /\ IF HasReasoning(ThisFrag)
           THEN /\ ReasoningAppended(ReasoningOf(ThisFrag))
                /\ ContentUnchanged /\ ToolCallsUnchanged
           ELSE IF EffectiveContent(ThisFrag)
           THEN /\ ContentAppended(ContentOf(ThisFrag))
                /\ ReasoningUnchanged /\ ToolCallsUnchanged
           ELSE IF HasToolInc(ThisFrag)
           THEN /\ ToolIncRouted(Val(ThisFrag.tool_calls))
                /\ ReasoningUnchanged /\ ContentUnchanged
           ELSE ReasoningUnchanged /\ ContentUnchanged /\ ToolCallsUnchanged
       ]_vars

\* C10 amended: a present, non-empty reasoning increment is appended to
\* reasoning_content and nothing else of the fragment is applied; otherwise a
\* non-empty, non-lone-newline content increment is appended to content;
\* otherwise a present tool-call increment is routed to tool-call
\* accumulation; no fragment modifies more than one of the three fields.
C10_PrecedenceNonEmptyReasoning ==
    [][ReadsFragment =>
        /\ AtMostOneModified
        /\ IF HasReasoning(ThisFrag) /\ ReasoningOf(ThisFrag) # <<>>
           THEN /\ ReasoningAppended(ReasoningOf(ThisFrag))
                /\ ContentUnchanged /\ ToolCallsUnchanged
           ELSE IF EffectiveContent(ThisFrag)
           THEN /\ ContentAppended(ContentOf(ThisFrag))
                /\ ReasoningUnchanged /\ ToolCallsUnchanged
           ELSE IF HasToolInc(ThisFrag)
           THEN /\ ToolIncRouted(Val(ThisFrag.tool_calls))
                /\ ReasoningUnchanged /\ ContentUnchanged
           ELSE ReasoningUnchanged /\ ContentUnchanged /\ ToolCallsUnchanged
       ]_vars

\* fragments carrying several categories were read and one increment of
\* each was applied: reasoning over content, content over a tool call, and a
\* tool call beside a lone newline
C10_Witness ==
    /\ Len(Frags) = 3
    /\ HasReasoning(Frags[1]) /\ EffectiveContent(Frags[1])
    /\ EffectiveContent(Frags[2]) /\ HasToolInc(Frags[2])
    /\ HasReasoning(Frags[3]) /\ HasToolInc(Frags[3])
    /\ locals.message.reasoning_content = Some(<<"r", "r">>)
    /\ locals.message.content = Some(<<"c">>)
    /\ locals.message.tool_calls = None

-----------------------------------------------------------------------------
(* Agent.get_response as one call: the fold of a whole stream *)

\* a stream: its lines, and how it ends ("done" | "malformed" | "end")
Stream(lines, term) == [lines |-> lines, term |-> term]

RECURSIVE FoldLines(_, _)
FoldLines(l, lines) ==
    IF lines = <<>> \/ l.raised THEN l
    ELSE IF IsData(Head(lines))
         THEN FoldLines(ApplyFragment(l, Head(lines).frag), Tail(lines))
         ELSE FoldLines(l, Tail(lines))

\* the outcome of get_response on a stream: how it left, and its locals
GetResponse(stream) ==
    LET l == FoldLines(InitLocals, stream.lines)
    IN  IF l.raised THEN [exit |-> "raised", locals |-> l]
        ELSE IF stream.term = "done"
             THEN [exit |-> "returned", locals |-> Write(l, <<NL, NL>>)]
        ELSE IF stream.term = "malformed"
             THEN [exit |-> "raised", locals |-> [l EXCEPT !.raised = TRUE]]
        ELSE [exit |-> "fell_through", locals |-> l]

-----------------------------------------------------------------------------
(* The tool registry and json.loads *)

\* self.tools: the names gather_tools registers
ToolNames == {"execute_shell_command", "get_spot_pair_price"}

\* json.loads(text) yields a dict: "{" members "}" with members empty or
\* "m" ("," "m")*, where "m" stands for one "key": value member
IsJsonObject(t) ==
    /\ Len(t) >= 2
    /\ t[1] = "{" /\ t[Len(t)] = "}"
    /\ LET inner == SubSeq(t, 2, Len(t) - 1)
       IN  \/ inner = <<>>
           \/ /\ Len(inner) % 2 = 1
              /\ \A i \in 1 .. Len(inner) :
                    inner[i] = (IF i % 2 = 1 THEN "m" ELSE ",")

\* str(res) of what a tool returned
ToolResults == {<<"o", "k">>}

\* NotInTools without the attempted name and the registry's names
NotInTools_NoName(fn_name) == <<"tool", " not in tools">>

\* f"{fn_name} not in tools[{list(self.tools.keys())}]", line 106
NotInTools(fn_name) ==
    <<fn_name, " not in tools[">>
        \o <<"execute_shell_command", "get_spot_pair_price">> \o <<"]">>

\* the tool Message of lines 108-113
ToolMessage(tc, fn_name, res) ==
    [role |-> "tool", tool_call_id |-> tc.id, name |-> fn_name, content |-> res]

-----------------------------------------------------------------------------
(* Agent.__call__ *)

ShellIntro(id, args) == Some(ToolInc(Some(id), "execute_shell_command", args))
PriceIntro(id, args) == Some(ToolInc(Some(id), "get_spot_pair_price", args))
EchoIntro(id, args) == Some(ToolInc(Some(id), "echo", args))
Finish(reason) == DataLine(TailOnly(Some(reason), None, Some(Usage(42))))
Inc(tc) == DataLine(DeltaOnly(None, None, tc))
Say(c) == DataLine(DeltaOnly(None, Some(c), None))

\* the streams the service answers a request with
TurnStreams ==
    { \* plain content
      Stream(<<Say(<<"c">>), Finish("stop")>>, "done"),
      \* one call of a registered tool, its arguments split over two fragments
      Stream(<<Inc(ShellIntro("c1", <<"{", "m">>)), Inc(Cont),
               Finish("tool_calls")>>, "done"),
      \* one call whose arguments text is cut short
      Stream(<<Inc(ShellIntro("c1", <<"{", "m">>)), Finish("tool_calls")>>,
             "done"),
      \* a call of a name the registry does not hold
      Stream(<<Inc(EchoIntro("c1", <<"{", "}">>)), Finish("tool_calls")>>,
             "done"),
      \* two calls
      Stream(<<Inc(ShellIntro("c1", <<"{", "}">>)),
               Inc(PriceIntro("c2", <<"{", "m", ",", "m", "}">>)),
               Finish("tool_calls")>>, "done"),
      \* a call of an unknown name, then a call of a registered tool
      Stream(<<Inc(EchoIntro("c1", <<"{", "}">>)),
               Inc(ShellIntro("c2", <<"{", "}">>)),
               Finish("tool_calls")>>, "done"),
      \* a call with no fragment marking the turn as ended for tool calls
      Stream(<<Inc(ShellIntro("c1", <<"{", "}">>)), Finish("stop")>>, "done"),
      \* a turn marked as ended for tool calls that carries no call
      Stream(<<Say(<<"c">>), Finish("tool_calls")>>, "done"),
      \* faults of the turn
      Stream(<<Say(<<"c">>)>>, "malformed"),
      Stream(<<Say(<<"c">>)>>, "end"),
      Stream(<<Inc(Cont)>>, "done") }

\* the lines get_response read of a stream
LinesRead(stream) ==
    IF stream.term = "malformed"
    THEN Append(stream.lines, MalformedLine) ELSE stream.lines

\* where the loop goes once a Message with tool calls is appended: the for
\* loop of Agent.__call__ (line 98), or that of SelfImprovingAgent.__call__
\* (line 72)
ToDispatch == IF agent = "Agent" THEN "dispatch" ELSE "prepare"

\* TurnReturns posting the next request without waiting for the user
TurnReturns_Resubmits(r) ==
    /\ response' = r.locals.message
    /\ n_tokens' = r.locals.n_tokens
    /\ messages' = Append(messages, r.locals.message)
    /\ pc' = IF ListOf(r.locals.message.tool_calls) # <<>>
             THEN ToDispatch ELSE "get_response"
    /\ fault' = fault

\* TurnReturns deciding by the turn-completion marker of the stream: tools
\* are dispatched when a fragment carried finish_reason = "tool_calls"
TurnReturns_ByFinishReason(r) ==
    /\ response' = r.locals.message
    /\ n_tokens' = r.locals.n_tokens
    /\ messages' = Append(messages, r.locals.message)
    /\ pc' = IF /\ ListOf(r.locals.message.tool_calls) # <<>>
                /\ \E i \in 1 .. Len(received') :
                        received'[i].frag.finish_reason = Some("tool_calls")
             THEN ToDispatch ELSE "read"
    /\ fault' = fault

\* lines 95-97 and 115-117 when get_response returns: append the Message and
\* test the while condition
TurnReturns(r) ==
    /\ response' = r.locals.message
    /\ n_tokens' = r.locals.n_tokens
    /\ messages' = Append(messages, r.locals.message)
    /\ pc' = IF ListOf(r.locals.message.tool_calls) # <<>>
             THEN ToDispatch ELSE "read"
    /\ fault' = fault

\* TurnFaults appending what get_response had accumulated
TurnFaults_AppendsPartial(r) ==
    /\ pc' = "faulted"
    /\ fault' = IF r.exit = "raised" THEN "get_response" ELSE "unpack"
    /\ messages' = Append(messages, r.locals.message)
    /\ UNCHANGED <<response, n_tokens>>

\* TurnFaults with the loop posting the request again
TurnFaults_Retries(r) ==
    /\ pc' = "get_response"
    /\ fault' = fault
    /\ UNCHANGED <<response, n_tokens, messages>>

\* TurnFaults taking a stream that ended without its sentinel as a turn that
\* returned what had been accumulated
TurnFaults_AcceptsUnfinished(r) ==
    IF r.exit = "fell_through"
    THEN /\ pc' = "read"
         /\ fault' = fault
         /\ messages' = Append(messages, r.locals.message)
         /\ response' = r.locals.message
         /\ n_tokens' = r.locals.n_tokens
    ELSE /\ pc' = "faulted"
         /\ fault' = "get_response"
         /\ UNCHANGED <<response, n_tokens, messages>>

\* lines 95 and 115 when get_response raises, or returns None and the
\* unpacking raises: the exception leaves __call__
TurnFaults(r) ==
    /\ pc' = "faulted"
    /\ fault' = IF r.exit = "raised" THEN "get_response" ELSE "unpack"
    /\ UNCHANGED <<response, n_tokens, messages>>

\* lines 95-97 and 115-117: post a request, decode the stream, append the
\* Message and test the while condition
Turn ==
    /\ pc = "get_response"
    /\ n_requests < MaxRequests
    /\ n_requests' = n_requests + 1
    /\ \E stream \in TurnStreams :
        LET r == GetResponse(stream)
        IN  /\ received' = LinesRead(stream)
            /\ locals' = r.locals
            /\ gr_pc' = r.exit
            /\ n_sessions' = Released(Acquire(n_sessions))
            /\ IF r.exit = "returned" THEN TurnReturns(r) ELSE TurnFaults(r)
    /\ tc_i' = 1
    /\ tasks' = <<>>
    /\ completed' = <<>>
    /\ UNCHANGED <<stdin, invoked, agent>>
    /\ UNCHANGED <<tool_vars, life_vars>>

\* lines 135-138 raising: the connection fails, no line is read
TurnConnectFails ==
    /\ pc = "get_response"
    /\ n_requests < MaxRequests
    /\ n_requests' = n_requests + 1
    /\ received' = <<>>
    /\ locals' = InitLocals
    /\ gr_pc' = "raised"
    /\ n_sessions' = Released(Acquire(n_sessions))
    /\ pc' = "faulted"
    /\ fault' = "transport"
    /\ tc_i' = 1
    /\ tasks' = <<>>
    /\ completed' = <<>>
    /\ UNCHANGED <<response, n_tokens, messages, stdin, invoked, agent>>
    /\ UNCHANGED <<tool_vars, life_vars>>

\* the call the for loop is at, line 98
CurrentCall == Val(response.tool_calls)[tc_i]

\* AfterCall going to the user's input once the calls are answered
AfterCall_ReadsUser ==
    IF tc_i < Len(Val(response.tool_calls))
    THEN pc' = "dispatch" /\ tc_i' = tc_i + 1
    ELSE pc' = "read" /\ tc_i' = 1

\* after the body: the next call, or the request of line 115
AfterCall ==
    IF tc_i < Len(Val(response.tool_calls))
    THEN pc' = "dispatch" /\ tc_i' = tc_i + 1
    ELSE pc' = "get_response" /\ tc_i' = 1

\* lines 99-114 for a registered tool that returns
DispatchReturns ==
    /\ pc = "dispatch"
    /\ CurrentCall.function.name \in ToolNames
    /\ IsJsonObject(CurrentCall.function.arguments)
    /\ \E res \in ToolResults :
        messages' = Append(messages,
            ToolMessage(CurrentCall, CurrentCall.function.name, res))
    /\ invoked' = Append(invoked, CurrentCall.id)
    /\ AfterCall
    /\ UNCHANGED <<response, n_tokens, stdin, n_requests, fault>>
    /\ UNCHANGED si_vars
    /\ UNCHANGED dec_vars
    /\ UNCHANGED <<tool_vars, life_vars>>

\* lines 99-104 for a registered tool that raises: the exception leaves
\* __call__
DispatchRaises ==
    /\ pc = "dispatch"
    /\ CurrentCall.function.name \in ToolNames
    /\ IsJsonObject(CurrentCall.function.arguments)
    /\ invoked' = Append(invoked, CurrentCall.id)
    /\ pc' = "faulted"
    /\ fault' = "tool"
    /\ UNCHANGED <<messages, response, n_tokens, tc_i, stdin, n_requests>>
    /\ UNCHANGED si_vars
    /\ UNCHANGED dec_vars
    /\ UNCHANGED <<tool_vars, life_vars>>

\* line 101 raising: json.loads rejects the arguments text
DispatchBadArguments ==
    /\ pc = "dispatch"
    /\ CurrentCall.function.name \in ToolNames
    /\ ~IsJsonObject(CurrentCall.function.arguments)
    /\ pc' = "faulted"
    /\ fault' = "json"
    /\ UNCHANGED <<messages, response, n_tokens, tc_i, stdin, n_requests,
                   invoked>>
    /\ UNCHANGED si_vars
    /\ UNCHANGED dec_vars
    /\ UNCHANGED <<tool_vars, life_vars>>

\* lines 105-114: the name is not in self.tools
DispatchUnknown ==
    /\ pc = "dispatch"
    /\ CurrentCall.function.name \notin ToolNames
    /\ messages' = Append(messages,
            ToolMessage(CurrentCall, CurrentCall.function.name,
                        NotInTools(CurrentCall.function.name)))
    /\ AfterCall
    /\ UNCHANGED <<response, n_tokens, stdin, n_requests, fault, invoked>>
    /\ UNCHANGED si_vars
    /\ UNCHANGED dec_vars
    /\ UNCHANGED <<tool_vars, life_vars>>

\* the lines a user types
UserLines == {<<"u", NL>>}

\* ReadLine keeping a window of the conversation where the code appends
ReadLine_DropsOldest ==
    /\ pc = "read"
    /\ stdin = "open"
    /\ \E line \in UserLines :
        messages' = Append(Tail(messages), [role |-> "user", content |-> line])
    /\ pc' = "get_response"
    /\ UNCHANGED <<response, n_tokens, tc_i, stdin, n_requests, fault,
                   invoked>>
    /\ UNCHANGED si_vars
    /\ UNCHANGED dec_vars
    /\ UNCHANGED <<tool_vars, life_vars>>

\* lines 118-119 and read(), lines 121-125: readline() returns a line
ReadLine ==
    /\ pc = "read"
    /\ stdin = "open"
    /\ \E line \in UserLines :
        messages' = Append(messages, [role |-> "user", content |-> line])
    /\ pc' = "get_response"
    /\ UNCHANGED <<response, n_tokens, tc_i, stdin, n_requests, fault,
                   invoked>>
    /\ UNCHANGED si_vars
    /\ UNCHANGED dec_vars
    /\ UNCHANGED <<tool_vars, life_vars>>

\* lines 118-119 and read() at end-of-stream: readline() returns b""
ReadEof ==
    /\ pc = "read"
    /\ stdin = "eof"
    /\ messages' = Append(messages, [role |-> "user", content |-> <<>>])
    /\ pc' = "get_response"
    /\ UNCHANGED <<response, n_tokens, tc_i, stdin, n_requests, fault,
                   invoked>>
    /\ UNCHANGED si_vars
    /\ UNCHANGED dec_vars
    /\ UNCHANGED <<tool_vars, life_vars>>

\* the input channel reaches end-of-stream
CloseStdin ==
    /\ stdin = "open"
    /\ pc # "faulted"
    /\ stdin' = "eof"
    /\ UNCHANGED <<pc, messages, response, n_tokens, tc_i, n_requests, fault,
                   invoked>>
    /\ UNCHANGED si_vars
    /\ UNCHANGED dec_vars
    /\ UNCHANGED <<tool_vars, life_vars>>

-----------------------------------------------------------------------------
(* SelfImprovingAgent.__call__: the tool calls of a turn under               *)
(* asyncio.gather (src/core/SelfImprovingAgent.py)                           *)

Calls == Val(response.tool_calls)

\* a coroutine of tool_coroutines: execute_tool(fn, kwargs) or missing_tool()
Task(kind) == [kind |-> kind, state |-> "pending", result |-> <<>>]

\* lines 72-77 raising: json.loads rejects the arguments text of a call of
\* a registered tool
SI_PrepareBadArguments ==
    /\ pc = "prepare"
    /\ \E i \in 1 .. Len(Calls) :
            /\ Calls[i].function.name \in ToolNames
            /\ ~IsJsonObject(Calls[i].function.arguments)
    /\ pc' = "faulted"
    /\ fault' = "json"
    /\ UNCHANGED <<messages, response, n_tokens, tc_i, stdin, n_requests,
                   invoked, agent, tasks, completed>>
    /\ UNCHANGED dec_vars
    /\ UNCHANGED <<tool_vars, life_vars>>

\* lines 69-90: the for loop builds one coroutine per call; none has run
\* when asyncio.gather is awaited (line 92)
SI_Prepare ==
    /\ pc = "prepare"
    /\ \A i \in 1 .. Len(Calls) :
            Calls[i].function.name \in ToolNames
                => IsJsonObject(Calls[i].function.arguments)
    /\ tasks' = [i \in 1 .. Len(Calls) |->
                    Task(IF Calls[i].function.name \in ToolNames
                         THEN "tool" ELSE "missing")]
    /\ completed' = <<>>
    /\ pc' = "gather"
    /\ UNCHANGED <<messages, response, n_tokens, tc_i, stdin, n_requests,
                   fault, invoked, agent>>
    /\ UNCHANGED dec_vars
    /\ UNCHANGED <<tool_vars, life_vars>>

\* the name missing_tool() formats, line 89: it reads the loop variable
\* fn_name when it runs, after the for loop has ended
MissingToolName == Calls[Len(Calls)].function.name

\* SI_TaskReturns appending the tool Message of a call as soon as its
\* coroutine returns
SI_TaskReturns_AppendsAtOnce(i) ==
    /\ pc = "gather"
    /\ tasks[i].state = "pending"
    /\ IF tasks[i].kind = "tool"
       THEN /\ \E res \in ToolResults :
                /\ tasks' = [tasks EXCEPT ![i].state = "done", ![i].result = res]
                /\ messages' = Append(messages,
                        ToolMessage(Calls[i], Calls[i].function.name, res))
            /\ invoked' = Append(invoked, Calls[i].id)
       ELSE /\ tasks' = [tasks EXCEPT ![i].state = "done",
                            ![i].result = NotInTools(MissingToolName)]
            /\ messages' = Append(messages,
                    ToolMessage(Calls[i], Calls[i].function.name,
                                NotInTools(MissingToolName)))
            /\ invoked' = invoked
    /\ completed' = Append(completed, i)
    /\ UNCHANGED <<pc, response, n_tokens, tc_i, stdin, n_requests,
                   fault, agent>>
    /\ UNCHANGED dec_vars
    /\ UNCHANGED <<tool_vars, life_vars>>

\* lines 79-84 and 88-89: a coroutine of the gather runs to its return
SI_TaskReturns(i) ==
    /\ pc = "gather"
    /\ tasks[i].state = "pending"
    /\ IF tasks[i].kind = "tool"
       THEN /\ \E res \in ToolResults :
                tasks' = [tasks EXCEPT ![i].state = "done", ![i].result = res]
            /\ invoked' = Append(invoked, Calls[i].id)
       ELSE /\ tasks' = [tasks EXCEPT ![i].state = "done",
                            ![i].result = NotInTools(MissingToolName)]
            /\ invoked' = invoked
    /\ completed' = Append(completed, i)
    /\ UNCHANGED <<pc, messages, response, n_tokens, tc_i, stdin, n_requests,
                   fault, agent>>
    /\ UNCHANGED dec_vars
    /\ UNCHANGED <<tool_vars, life_vars>>

\* lines 79-84 raising: asyncio.gather propagates the first exception to
\* line 92, and lines 114-116 log it and re-raise
SI_TaskRaises(i) ==
    /\ pc = "gather"
    /\ tasks[i].state = "pending"
    /\ tasks[i].kind = "tool"
    /\ invoked' = Append(invoked, Calls[i].id)
    /\ pc' = "faulted"
    /\ fault' = "tool"
    /\ UNCHANGED <<messages, response, n_tokens, tc_i, stdin, n_requests,
                   agent, tasks, completed>>
    /\ UNCHANGED dec_vars
    /\ UNCHANGED <<tool_vars, life_vars>>

\* the tool Messages of lines 94-100, tool_results taken in the order of
\* the sequence order
ToolMessagesOf(order) ==
    [k \in 1 .. Len(order) |->
        ToolMessage(Calls[order[k]], Calls[order[k]].function.name,
                    tasks[order[k]].result)]

\* SI_Gathered taking the results as they completed
SI_Gathered_CompletionOrder ==
    /\ pc = "gather"
    /\ \A i \in 1 .. Len(tasks) : tasks[i].state = "done"
    /\ messages' = messages \o ToolMessagesOf(completed)
    /\ pc' = "get_response"
    /\ UNCHANGED <<response, n_tokens, tc_i, stdin, n_requests, fault,
                   invoked, agent, tasks, completed>>
    /\ UNCHANGED dec_vars
    /\ UNCHANGED <<tool_vars, life_vars>>

\* lines 92-100: every coroutine has returned; gather yields the results in
\* the order of tool_coroutines and the zip appends one tool Message per call
SI_Gathered ==
    /\ pc = "gather"
    /\ \A i \in 1 .. Len(tasks) : tasks[i].state = "done"
    /\ messages' = messages \o ToolMessagesOf([k \in 1 .. Len(tasks) |-> k])
    /\ pc' = "get_response"
    /\ UNCHANGED <<response, n_tokens, tc_i, stdin, n_requests, fault,
                   invoked, agent, tasks, completed>>
    /\ UNCHANGED dec_vars
    /\ UNCHANGED <<tool_vars, life_vars>>

AgentClasses == {"Agent", "SelfImprovingAgent"}

InitCall ==
    /\ gr_pc = "idle"
    /\ received = <<>>
    /\ locals = InitLocals
    /\ n_sessions = 0
    /\ agent \in AgentClasses
    /\ LoopIdle
    /\ \E snap \in BOOLEAN : messages = InitMessages(snap)
    /\ ToolsIdle
    /\ NotEntered

NextCall ==
    \/ Turn
    \/ TurnConnectFails
    \/ DispatchReturns
    \/ DispatchRaises
    \/ DispatchBadArguments
    \/ DispatchUnknown
    \/ \E i \in 1 .. Len(tasks) : SI_TaskReturns(i)
    \/ \E i \in 1 .. Len(tasks) : SI_TaskRaises(i)
    \/ SI_PrepareBadArguments
    \/ SI_Prepare
    \/ SI_Gathered
    \/ ReadLine
    \/ ReadEof
    \/ CloseStdin

SpecCall == InitCall /\ [][NextCall]_vars

-----------------------------------------------------------------------------
(* C3, C4, C5: the loop at its dispatch boundary and at end of input *)

\* this step runs the body of the for loop (not the input channel closing)
RunsCallBody == pc = "dispatch" /\ stdin' = stdin

\* the step appended exactly the tool Message of the current call
AppendedToolMessage ==
    /\ Len(messages') = Len(messages) + 1
    /\ SubSeq(messages', 1, Len(messages)) = messages
    /\ Last(messages').role = "tool"
    /\ Last(messages').tool_call_id = CurrentCall.id

\* C3 as stated: for every call whose tool is invoked, whether the tool
\* returns or raises, exactly one tool Message is appended for the call and
\* the loop does not fault.
C3_OneToolMessagePerCall ==
    [][(RunsCallBody /\ CurrentCall.function.name \in ToolNames
            /\ IsJsonObject(CurrentCall.function.arguments)) =>
            (AppendedToolMessage /\ pc' # "faulted")]_vars

\* C4 as stated: when the arguments text of a call does not parse as a JSON
\* object, a tool Message is appended for the call and the failure does not
\* leave the loop.
C4_BadArgumentsCaught ==
    [][(RunsCallBody /\ CurrentCall.function.name \in ToolNames
            /\ ~IsJsonObject(CurrentCall.function.arguments)) =>
            (AppendedToolMessage /\ pc' # "faulted")]_vars

\* C5 as stated: once the input channel is at end-of-stream while the loop
\* waits for a user line, no user Message is appended and no further request
\* is issued.
C5_EofEndsLoop ==
    [][(pc = "read" /\ stdin = "eof") =>
            (messages' = messages /\ pc' # "get_response")]_vars

-----------------------------------------------------------------------------
(* C11: a call of a name the registry does not hold *)

\* the text holds the token
Contains(text, tok) == \E i \in 1 .. Len(text) : text[i] = tok

\* the for loop goes on to the next call of the turn, or to the next request
LoopContinues ==
    IF tc_i < Len(Val(response.tool_calls))
    THEN pc' = "dispatch" /\ tc_i' = tc_i + 1
    ELSE pc' = "get_response"

\* C11: in Agent.__call__, dispatching a call whose name is absent from the
\* registry appends a tool Message for the call whose text contains the
\* attempted name and every name of the registry, invokes no tool, and the
\* loop goes on with the remaining calls and the next turn without faulting.
C11_UnknownToolAnswered ==
    [][(RunsCallBody /\ CurrentCall.function.name \notin ToolNames) =>
            /\ AppendedToolMessage
            /\ Last(messages').name = CurrentCall.function.name
            /\ Contains(Last(messages').content, CurrentCall.function.name)
            /\ \A n \in ToolNames : Contains(Last(messages').content, n)
            /\ invoked' = invoked
            /\ pc' # "faulted"
            /\ LoopContinues]_vars

\* the unknown call c1 was answered and the loop is at the registered call c2
C11_Witness ==
    /\ agent = "Agent"
    /\ pc = "dispatch"
    /\ tc_i = 2
    /\ Last(messages).role = "tool"
    /\ Last(messages).name = "echo"
    /\ Last(messages).tool_call_id = "c1"
    /\ Contains(Last(messages).content, "echo")
    /\ invoked = <<>>

-----------------------------------------------------------------------------
(* C12: the order of the tool Messages of a turn *)

\* the Message at position p is an assistant Message with tool calls
IsCallingMessage(p) ==
    /\ messages[p].role = "assistant"
    /\ ListOf(messages[p].tool_calls) # <<>>

\* the tool Messages that follow the assistant Message at p answer its calls
\* in the order of the calls
AnsweredInCallOrder(p) ==
    LET cs == ListOf(messages[p].tool_calls)
    IN  \A k \in 1 .. Len(cs) :
            p + k <= Len(messages) =>
                /\ messages[p + k].role = "tool"
                /\ messages[p + k].tool_call_id = cs[k].id
                /\ messages[p + k].name = cs[k].function.name

\* C12: the tool Messages of a turn are appended in the order of the tool
\* calls of the assistant Message, the i-th carrying the i-th call's id and
\* name, whatever the order in which the invocations complete.
C12_ToolMessagesInCallOrder ==
    \A p \in 1 .. Len(messages) :
        IsCallingMessage(p) => AnsweredInCallOrder(p)

\* the second call completed before the first, and both are answered
C12_Witness ==
    /\ agent = "SelfImprovingAgent"
    /\ completed = <<2, 1>>
    /\ pc = "get_response"
    /\ Len(messages) >= 3
    /\ IsCallingMessage(Len(messages) - 2)
    /\ messages[Len(messages) - 1].role = "tool"
    /\ messages[Len(messages) - 1].tool_call_id = "c1"
    /\ Last(messages).role = "tool"
    /\ Last(messages).tool_call_id = "c2"

-----------------------------------------------------------------------------
(* C13, C14: what follows a turn *)

\* the loop is handling the tool calls of the turn's Message
Dispatching == pc \in {"dispatch", "prepare", "gather"}

\* the conversation ends with the turn's Message followed by one tool
\* Message per call, each carrying its call's id
TurnAnswered ==
    LET n == Len(Calls)
        p == Len(messages) - n
    IN  /\ p >= 1
        /\ messages[p] = response
        /\ \A k \in 1 .. n :
                /\ messages[p + k].role = "tool"
                /\ messages[p + k].tool_call_id = Calls[k].id

\* C13 as stated: after a turn whose Message has tool calls the loop appends
\* one tool Message per call, carrying the call's id, and then issues another
\* model turn before it reads user input; user input is read only after a
\* turn whose Message has no tool calls.
C13_ToolTurnAnsweredThenNextTurn ==
    [][/\ Dispatching =>
            \/ Dispatching'
            \/ pc' = "get_response" /\ TurnAnswered'
       /\ pc' = "read" => ListOf(response'.tool_calls) = <<>>]_vars

\* this step is a turn that returned a Message without tool calls
TurnWithoutCalls ==
    /\ pc = "get_response"
    /\ n_requests' = n_requests + 1
    /\ pc' # "faulted"
    /\ ListOf(response'.tool_calls) = <<>>

\* this step appended one user Message
AppendedUserMessage ==
    /\ Len(messages') = Len(messages) + 1
    /\ SubSeq(messages', 1, Len(messages)) = messages
    /\ Last(messages').role = "user"

\* C14: after a turn whose Message has no tool calls the loop dispatches no
\* tool and issues no request before it reads the user's line; once the line
\* is appended as a user Message the loop is at the next model turn.
C14_NoCallsThenUserThenTurn ==
    [][/\ TurnWithoutCalls => (pc' = "read" /\ invoked' = invoked)
       /\ pc = "read" =>
            /\ invoked' = invoked
            /\ n_requests' = n_requests
            /\ \/ pc' = "read" /\ messages' = messages
               \/ pc' = "get_response" /\ AppendedUserMessage]_vars

\* a turn without tool calls, then the user's line, then the loop at the next
\* request
C14_Witness ==
    /\ pc = "get_response"
    /\ n_requests = 1
    /\ invoked = <<>>
    /\ Len(messages) = 3
    /\ messages[2].role = "assistant"
    /\ ListOf(messages[2].tool_calls) = <<>>
    /\ messages[3] = [role |-> "user", content |-> <<"u", NL>>]

-----------------------------------------------------------------------------
(* C15, C16, C17: the conversation and the requests across steps and faults *)

\* s is an initial segment of t
IsPrefix(s, t) == Len(s) <= Len(t) /\ SubSeq(t, 1, Len(s)) = s

\* C15: Agent.messages is append-only; across every step of the loop (model
\* turn, tool dispatch, user input, fault) the earlier conversation is a
\* prefix of the later one, so no Message is edited, reordered or removed.
C15_MessagesAppendOnly == [][IsPrefix(messages, messages')]_vars

\* a conversation that went through a turn, a tool dispatch, a user line and
\* a fault, and still starts with the prompt
C15_Witness ==
    /\ pc = "faulted"
    /\ Len(messages) >= 5
    /\ messages[1] = [role |-> "user", content |-> <<"p">>]
    /\ \E i \in 1 .. Len(messages) : messages[i].role = "tool"
    /\ \E i \in 2 .. Len(messages) : messages[i].role = "user"

\* this step is a turn ending in a fault: the connection fails, a fragment is
\* not JSON, a fragment violates the protocol shape, or the stream ends
\* without its sentinel
TurnEndsInFault == pc = "get_response" /\ pc' = "faulted"

\* C16: a turn that ends in a fatal fault (connection failure, malformed
\* fragment JSON, protocol shape violation) leaves the conversation
\* unchanged; no partial or error assistant Message is appended for it.
C16_FaultedTurnAppendsNothing ==
    [][TurnEndsInFault => (messages' = messages /\ response' = response)]_vars

\* get_response raised at a malformed line after it had accumulated content,
\* and the conversation still ends with the user's Message
C16_Witness ==
    /\ pc = "faulted"
    /\ fault = "get_response"
    /\ Last(received).kind = "malformed"
    /\ TruthyText(locals.message.content)
    /\ Last(messages).role = "user"
    /\ \A i \in 1 .. Len(messages) : messages[i] # locals.message

\* this step posts a request
PostsRequest == n_requests' # n_requests

\* C17: get_response issues exactly one request per turn and never retries;
\* when the request or the stream fails the fault leaves get_response and
\* __call__, and the loop issues no further request.
C17_OneRequestNoRetry ==
    [][/\ PostsRequest => (pc = "get_response" /\ n_requests' = n_requests + 1)
       /\ (pc = "get_response" /\ pc' # "get_response") => PostsRequest
       /\ (PostsRequest /\ gr_pc' # "returned") =>
                (pc' = "faulted" /\ fault' # "")
       /\ pc = "faulted" => (pc' = "faulted" /\ ~PostsRequest)]_vars

\* the second request of the session failed and the loop has stopped with
\* the two requests it posted
C17_Witness ==
    /\ pc = "faulted"
    /\ fault \in {"transport", "get_response"}
    /\ gr_pc = "raised"
    /\ n_requests = 2

-----------------------------------------------------------------------------
(* C18, C19, C20: malformed lines, increments without a call, call ids *)

\* the lines read before the last one
Front(s) == SubSeq(s, 1, Len(s) - 1)

\* C18: a data line whose payload is not JSON (and is not the sentinel) is
\* fatal for the turn: get_response raises at that line, having processed
\* exactly the fragments before it, and reads no line after it.
C18_MalformedLineIsFatal ==
    \A i \in 1 .. Len(received) :
        received[i].kind = "malformed" =>
            /\ i = Len(received)
            /\ gr_pc = "raised"
            /\ locals.message =
                    GetResponse(Stream(Front(received), "end")).locals.message

\* get_response raised at a malformed line that followed two fragments
C18_Witness ==
    /\ gr_pc = "raised"
    /\ Len(received) = 3
    /\ received[1].kind = "data"
    /\ received[2].kind = "data"
    /\ received[3].kind = "malformed"
    /\ TruthyText(locals.message.content)

\* the fragment's tool-call increment is the increment the if / elif chain
\* acts on, it lacks an id, and the message has no tool_calls entry
OrphanIncrement(f) ==
    /\ HasToolInc(f)
    /\ ~CarriesId(Val(f.tool_calls))
    /\ ~TruthyText(f.reasoning_content)
    /\ ~EffectiveContent(f)
    /\ ListOf(locals.message.tool_calls) = <<>>

\* C19: a tool-call increment that lacks an id and arrives when no tool call
\* has been introduced in the turn is a fatal fault: get_response raises and
\* returns no Message, and no tool_calls entry is created or modified.
C19_OrphanIncrementIsFatal ==
    [][/\ (ReadsFragment /\ OrphanIncrement(ThisFrag)) =>
            /\ gr_pc' = "raised"
            /\ ListOf(locals'.message.tool_calls) = <<>>
            /\ ReasoningUnchanged
            /\ ContentUnchanged
       /\ gr_pc = "raised" => gr_pc' = "raised"]_vars

\* get_response raised at an increment without an id that followed a content
\* fragment, with no tool_calls entry made
C19_Witness ==
    /\ gr_pc = "raised"
    /\ Len(received) = 2
    /\ IsData(received[2])
    /\ received[2].frag.tool_calls = Cont
    /\ ListOf(locals.message.tool_calls) = <<>>
    /\ TruthyText(locals.message.content)

\* C20 as stated: in every Message get_response returns, for every fragment
\* sequence, no two tool_calls entries share an id.
C20_UniqueIds ==
    Returned =>
        LET cs == ListOf(locals.message.tool_calls)
        IN  \A i, j \in 1 .. Len(cs) : cs[i].id = cs[j].id => i = j

-----------------------------------------------------------------------------
(* C21, C23: the sentinel, and lines without the data prefix *)

\* the Message and token count of folding the lines, as a whole call would
FoldedMessage(lines) == GetResponse(Stream(lines, "done")).locals.message
FoldedTokens(lines) == GetResponse(Stream(lines, "done")).locals.n_tokens

\* this step is get_response returning
Returns == gr_pc # "returned" /\ gr_pc' = "returned"

\* C21: get_response returns one Message and token count, and does so exactly
\* when the sentinel line is read: the step that returns reads no fragment
\* and leaves the accumulated Message and count as they are, what is returned
\* is the fold, in arrival order, of every fragment read before the sentinel,
\* and after the return nothing more is read or changed.
C21_ReturnsOnceAtSentinel ==
    [][/\ Returns =>
            /\ gr_pc = "streaming"
            /\ received' = received
            /\ locals'.message = locals.message
            /\ locals'.n_tokens = locals.n_tokens
            /\ locals'.message = FoldedMessage(received)
            /\ locals'.n_tokens = FoldedTokens(received)
       /\ gr_pc = "returned" =>
            (gr_pc' = "returned" /\ received' = received /\ locals' = locals)
       /\ gr_pc = "fell_through" => gr_pc' = "fell_through"]_vars

\* a Message returned at the sentinel after a content fragment and a terminal
\* fragment with its token count
C21_Witness ==
    /\ Returned
    /\ Len(Frags) = 2
    /\ TruthyText(locals.message.content)
    /\ HasFinish(Frags[2])
    /\ locals.n_tokens > 0
    /\ locals.message = FoldedMessage(received)

\* this step reads a line that does not begin with "data: "
ReadsOtherLine ==
    /\ gr_pc = "streaming"
    /\ Len(received') = Len(received) + 1
    /\ Last(received').kind = "other"

\* C23: a line that does not begin with "data: " is ignored: it leaves the
\* accumulated message, the tool-call index, the started-section flags and
\* the token count unchanged, writes nothing, and the stream is read on.
C23_OtherLineIgnored ==
    [][ReadsOtherLine =>
            /\ locals'.message = locals.message
            /\ locals'.tool_call_index = locals.tool_call_index
            /\ locals'.started_reasoning = locals.started_reasoning
            /\ locals'.started_content = locals.started_content
            /\ locals'.started_tool_calls = locals.started_tool_calls
            /\ locals'.n_tokens = locals.n_tokens
            /\ locals'.out = locals.out
            /\ gr_pc' = "streaming"]_vars

\* a line without the prefix was read between a call's introduction and its
\* continuation, and the arguments were joined across it
C23_Witness ==
    /\ Len(received) = 3
    /\ IsData(received[1])
    /\ received[2].kind = "other"
    /\ IsData(received[3])
    /\ received[3].frag.tool_calls = Cont
    /\ gr_pc = "streaming"
    /\ Len(ListOf(locals.message.tool_calls)) = 1

-----------------------------------------------------------------------------
(* C22: the network session of a turn *)

\* get_response is inside its async with blocks
InsideTurn == gr_pc = "streaming"

\* C22: the session get_response opens for a turn is released on every exit
\* of the turn (return at the sentinel, fault, end of stream, cancellation):
\* a session is open only while the stream is being read, never more than
\* one, and none while the loop dispatches tools or waits for user input.
C22_SessionReleasedOnEveryExit ==
    /\ n_sessions \in {0, 1}
    /\ n_sessions = 1 <=> InsideTurn
    /\ pc \in {"dispatch", "prepare", "gather", "read", "faulted"} =>
            n_sessions = 0

\* the turn was cancelled after two lines and its session is closed
C22_Witness ==
    /\ gr_pc = "cancelled"
    /\ Len(received) = 2
    /\ n_sessions = 0

-----------------------------------------------------------------------------
(* Python text operations used by the tools *)

\* s occurs in t at position 1
StartsWith(t, s) == Len(s) <= Len(t) /\ SubSeq(t, 1, Len(s)) = s

\* t without its first n characters
Drop(t, n) == SubSeq(t, n + 1, Len(t))

\* what a text-mode read yields (newline=None): "\r\n" and a lone "\r" are
\* both read as "\n"
RECURSIVE UniversalNewlines(_)
UniversalNewlines(t) ==
    IF t = <<>> THEN <<>>
    ELSE IF StartsWith(t, <<"\r", "\n">>)
         THEN <<"\n">> \o UniversalNewlines(Drop(t, 2))
    ELSE IF Head(t) = "\r" THEN <<"\n">> \o UniversalNewlines(Tail(t))
    ELSE <<Head(t)>> \o UniversalNewlines(Tail(t))

\* str.count(old) for a non-empty old: leftmost non-overlapping occurrences
RECURSIVE StrCount(_, _)
StrCount(t, old) ==
    IF Len(t) < Len(old) THEN 0
    ELSE IF StartsWith(t, old) THEN 1 + StrCount(Drop(t, Len(old)), old)
    ELSE StrCount(Tail(t), old)

\* str.replace(old, new) for a non-empty old
RECURSIVE StrReplace(_, _, _)
StrReplace(t, old, new) ==
    IF Len(t) < Len(old) THEN t
    ELSE IF StartsWith(t, old)
         THEN new \o StrReplace(Drop(t, Len(old)), old, new)
    ELSE <<Head(t)>> \o StrReplace(Tail(t), old, new)

-----------------------------------------------------------------------------
(* Paths (pathlib) and the files *)

\* Path(__file__).parent.parent.resolve(), src/tools/edit.py line 6
_ROOT_DIR == <<"/", "src">>

\* a path: the text it was given as, and its components
Path(name, parts) == [name |-> name, parts |-> parts]

\* Path.is_absolute()
IsAbsolute(p) == p.parts # <<>> /\ Head(p.parts) = "/"

\* Path.resolve() of an absolute path: ".." steps to the parent, and the
\* parent of the root is the root
RECURSIVE ResolveParts(_, _)
ResolveParts(done, rest) ==
    IF rest = <<>> THEN done
    ELSE IF Head(rest) = ".."
         THEN ResolveParts(IF Len(done) > 1
                           THEN SubSeq(done, 1, Len(done) - 1) ELSE done,
                           Tail(rest))
    ELSE ResolveParts(Append(done, Head(rest)), Tail(rest))

Resolve(p) == ResolveParts(<<>>, p.parts)

\* Path.relative_to(root) does not raise ValueError
IsRelativeTo(parts, root) == StartsWith(parts, root)

\* the paths a call names
InFile == Path("/src/f", <<"/", "src", "f">>)
OutFile == Path("/tmp/x", <<"/", "tmp", "x">>)
EscapingFile == Path("/src/../x", <<"/", "src", "..", "x">>)
RelativeFile == Path("f", <<"f">>)
EditPaths == {InFile, OutFile, EscapingFile, RelativeFile}

\* the files there can be: the resolved absolute paths
FileKeys == {Resolve(p) : p \in {q \in EditPaths : IsAbsolute(q)}}

\* Path.exists()
Exists(files, p) == Present(files[Resolve(p)])

\* Path.read_text(encoding="utf-8")
ReadText(files, p) == UniversalNewlines(Val(files[Resolve(p)]))

\* Path.write_text(text, encoding="utf-8") on a POSIX system
WriteText(files, p, text) == [files EXCEPT ![Resolve(p)] = Some(text)]

-----------------------------------------------------------------------------
(* The replace tool (src/tools/edit.py) *)

\* most tool calls made in a run
MaxCalls == 1

\* what a call of replace leaves: the returned text (as tokens), the file
\* operations it made, and the files
Outcome(text, ops, files) == [text |-> text, ops |-> ops, files |-> files]

\* path_obj.parent.mkdir(parent=True, exist_ok=True), line 53: Path.mkdir
\* takes `parents`; with `parent` the call raises TypeError before it makes
\* any directory
MkdirParent ==
    [raised |-> TRUE,
     exc |-> "Path.mkdir() got an unexpected keyword argument 'parent'"]

\* lines 79-80
ErrorExecuting(exc) == <<"Error executing edit: ", exc>>

\* CreateNewFile writing over a file that exists
CreateNewFile_Overwrites(files, file_path, new_string) ==
    Outcome(<<"Created new file", "[", file_path.name,
              "] with provided content">>,
            <<"write_text">>,
            WriteText(files, file_path, new_string))

\* lines 50-55: old_string == ""
CreateNewFile(files, file_path, new_string) ==
    IF Exists(files, file_path)
    THEN Outcome(<<"Error: ", "Failed to edit. Attempted to create file[",
                   file_path.name, "] that ", "already exists">>,
                 <<>>, files)
    ELSE IF MkdirParent.raised
         THEN Outcome(ErrorExecuting(MkdirParent.exc), <<"mkdir">>, files)
    ELSE Outcome(<<"Created new file", "[", file_path.name,
                   "] with provided content">>,
                 <<"mkdir", "write_text">>,
                 WriteText(files, file_path, new_string))

\* ExpectedButFound with the plural for every count
ExpectedButFound_Plural(expected_replacements, occurrences) ==
    <<"Error: ", "Failed to edit, ", "expected ",
      ToString(expected_replacements), " ", "occurrences",
      " but found ", ToString(occurrences), ".">>

\* lines 69-73
ExpectedButFound(expected_replacements, occurrences) ==
    <<"Error: ", "Failed to edit, ", "expected ",
      ToString(expected_replacements), " ",
      IF expected_replacements = 1 THEN "occurrence" ELSE "occurrences",
      " but found ", ToString(occurrences), ".">>

\* lines 58-77: a non-empty old_string
EditExistingFile(files, file_path, old_string, new_string, expected_replacements) ==
    IF ~Exists(files, file_path)
    THEN Outcome(<<"Error: ", "file[", file_path.name, "] ", "not found",
                   ". Cannot apply edit. Use an empty old_string to create",
                   " a new file.">>,
                 <<>>, files)
    ELSE LET current_content ==
                StrReplace(ReadText(files, file_path), <<"\r", "\n">>,
                           <<"\n">>)
             occurrences == StrCount(current_content, old_string)
         IN  IF occurrences = 0
             THEN Outcome(<<"Error: ", "Failed to edit, ",
                            "could not find the string to replace",
                            ". Ensure old_string is exact (check whitespace",
                            " & indentation).">>,
                          <<"read_text">>, files)
             ELSE IF occurrences # expected_replacements
             THEN Outcome(ExpectedButFound(expected_replacements,
                                           occurrences),
                          <<"read_text">>, files)
             ELSE Outcome(<<"Successfully modified", " file: ",
                            file_path.name, " (", ToString(occurrences),
                            " replacements).">>,
                          <<"read_text", "write_text">>,
                          WriteText(files, file_path,
                                    StrReplace(current_content, old_string,
                                               new_string)))

\* InRoot comparing the path as given, without resolving it
InRoot_Unresolved(file_path) == IsRelativeTo(file_path.parts, _ROOT_DIR)

\* line 41: the resolved path is under the project root
InRoot(file_path) == IsRelativeTo(Resolve(file_path), _ROOT_DIR)

\* replace(file_path, old_string, new_string, expected_replacements),
\* lines 30-80
Replace(files, file_path, old_string, new_string, expected_replacements) ==
    IF ~IsAbsolute(file_path)
    THEN Outcome(<<"Error: ", "file_path[", file_path.name, "] ",
                   "must be absolute">>, <<>>, files)
    ELSE IF ~InRoot(file_path)
    THEN Outcome(<<"Error: ", "file_path[", file_path.name, "] ",
                   "must be within project root", "[", "/src", "]">>,
                 <<>>, files)
    ELSE IF expected_replacements < 1
    THEN Outcome(<<"Error: ", "expected_replacements[",
                   ToString(expected_replacements), "] ", "must be >= 1">>,
                 <<>>, files)
    ELSE IF old_string = <<>>
    THEN CreateNewFile(files, file_path, new_string)
    ELSE EditExistingFile(files, file_path, old_string, new_string,
                          expected_replacements)

\* the contents the file under the root starts with
InitialContents ==
    { <<>>,
      <<"a">>,
      <<"a", "a", "a">>,
      <<"b", "a", "b", "a">>,
      <<"a", "\r", "\n", "b">> }

\* the files before the call: the file under the root is missing or holds
\* one of the contents, a file outside the root exists
InitialFiles ==
    { [k \in FileKeys |->
          IF k = Resolve(InFile) THEN c
          ELSE IF k = Resolve(OutFile) THEN Some(<<"a">>)
          ELSE None] : c \in {None} \cup {Some(t) : t \in InitialContents} }

\* the arguments a call is made with
OldStrings == {<<>>, <<"a">>, <<"a", "a">>, <<"a", "\n", "b">>, <<"c">>}
NewStrings == {<<"x">>, <<>>}
ExpectedCounts == 0 .. 3

\* one call of the tool
ReplaceCall(file_path, old_string, new_string, expected_replacements) ==
    /\ n_calls < MaxCalls
    /\ tool_call.name \in {"none", "replace"}
    /\ LET r == Replace(fs, file_path, old_string, new_string,
                        expected_replacements)
       IN  /\ fs' = r.files
           /\ tool_result' = [text |-> r.text, ops |-> r.ops]
    /\ tool_call' = [name |-> "replace",
                     file_path |-> file_path,
                     old_string |-> old_string,
                     new_string |-> new_string,
                     expected_replacements |-> expected_replacements]
    /\ n_calls' = n_calls + 1
    /\ UNCHANGED procs
    /\ UNCHANGED <<dec_vars, loop_vars, life_vars>>

\* the loop and the decoder at rest
AgentIdle ==
    /\ gr_pc = "idle"
    /\ received = <<>>
    /\ locals = InitLocals
    /\ n_sessions = 0
    /\ agent = "Agent"
    /\ InitLoop
    /\ NotEntered

InitEdit ==
    /\ AgentIdle
    /\ fs \in InitialFiles
    /\ procs = <<>>
    /\ tool_call = [name |-> "none"]
    /\ tool_result = [text |-> <<>>, ops |-> <<>>]
    /\ n_calls = 0

NextEdit ==
    \E file_path \in EditPaths, old_string \in OldStrings,
       new_string \in NewStrings, expected_replacements \in ExpectedCounts :
        ReplaceCall(file_path, old_string, new_string, expected_replacements)

SpecEdit == InitEdit /\ [][NextEdit]_vars

-----------------------------------------------------------------------------
(* C24 .. C28: the replace tool *)

\* this step is a call of replace; its arguments
CallsReplace == n_calls' = n_calls + 1 /\ tool_call'.name = "replace"
CallPath == tool_call'.file_path
CallOld == tool_call'.old_string
CallNew == tool_call'.new_string
CallExpected == tool_call'.expected_replacements

\* the path is absolute and resolves under the project root
ValidPath(p) == IsAbsolute(p) /\ IsRelativeTo(Resolve(p), _ROOT_DIR)

\* the content of the file a path names, before and after the step
ContentBefore(p) == fs[Resolve(p)]
ContentAfter(p) == fs'[Resolve(p)]

\* the returned text starts with the phrase
ReturnStartsWith(phrase) ==
    tool_result'.text # <<>> /\ Head(tool_result'.text) = phrase

\* the returned text contains the phrase
ReturnContains(phrase) == Contains(tool_result'.text, phrase)

\* C24 as stated: replace with old_string = '' (expected_replacements left at
\* its default) and an absolute file_path under the project root that does
\* not exist creates the file with content new_string and returns a text
\* starting with "Created new file".
C24_CreatesNewFile ==
    [][(/\ CallsReplace
        /\ CallOld = <<>>
        /\ CallExpected = 1
        /\ ValidPath(CallPath)
        /\ ~Present(ContentBefore(CallPath))) =>
            /\ ContentAfter(CallPath) = Some(CallNew)
            /\ ReturnStartsWith("Created new file")]_vars

\* the call names an existing file under the project root with a non-empty
\* old_string and an expected_replacements of at least 1
EditsExistingFile ==
    /\ CallsReplace
    /\ CallOld # <<>>
    /\ CallExpected >= 1
    /\ ValidPath(CallPath)
    /\ Present(ContentBefore(CallPath))

\* occurrences of old_string in the file as it is stored
OccurrencesInFile == StrCount(Val(ContentBefore(CallPath)), CallOld)

\* C25 as stated: on an existing file in which the non-empty old_string
\* occurs exactly expected_replacements times, replace puts new_string in
\* place of every occurrence, leaves the rest of the content unchanged, and
\* returns a text starting with "Successfully modified".
C25_ReplacesEveryOccurrence ==
    [][(EditsExistingFile /\ OccurrencesInFile = CallExpected) =>
            /\ ContentAfter(CallPath) =
                    Some(StrReplace(Val(ContentBefore(CallPath)),
                                    CallOld, CallNew))
            /\ ReturnStartsWith("Successfully modified")]_vars

\* C26 as stated: when the number of occurrences of old_string in the
\* existing file differs from expected_replacements, replace returns an
\* error text ("could not find the string to replace" for zero occurrences,
\* "expected E occurrences but found F" otherwise) and the content of the
\* file is unchanged.
C26_CountMismatchIsError ==
    [][(EditsExistingFile /\ OccurrencesInFile # CallExpected) =>
            /\ ReturnStartsWith("Error: ")
            /\ IF OccurrencesInFile = 0
               THEN ReturnContains("could not find the string to replace")
               ELSE \E i \in 1 .. Len(tool_result'.text) - 5 :
                        SubSeq(tool_result'.text, i, i + 5) =
                            <<"expected ", ToString(CallExpected), " ",
                              "occurrences", " but found ",
                              ToString(OccurrencesInFile)>>
            /\ ContentAfter(CallPath) = ContentBefore(CallPath)]_vars

\* occurrences of old_string in the file's text as a text-mode read yields it
OccurrencesAsRead ==
    StrCount(UniversalNewlines(Val(ContentBefore(CallPath))), CallOld)

\* the returned text contains the tokens, one after the other
ReturnContainsAll(toks) ==
    \E i \in 1 .. Len(tool_result'.text) - Len(toks) + 1 :
        SubSeq(tool_result'.text, i, i + Len(toks) - 1) = toks

\* the step made no file operation other than those listed, and changed no
\* file
OnlyOps(ops) == tool_result'.ops = ops /\ fs' = fs

\* C26: when the number of occurrences of old_string in the text read from
\* the existing file differs from expected_replacements, replace returns an
\* error text ("could not find the string to replace" for zero occurrences;
\* "expected E occurrence but found F" when E is 1 and "expected E
\* occurrences but found F" otherwise) and writes nothing.
C26_CountMismatchIsErrorAsWorded ==
    [][(EditsExistingFile /\ OccurrencesAsRead # CallExpected) =>
            /\ ReturnStartsWith("Error: ")
            /\ IF OccurrencesAsRead = 0
               THEN ReturnContains("could not find the string to replace")
               ELSE ReturnContainsAll(
                        <<"expected ", ToString(CallExpected), " ",
                          IF CallExpected = 1
                          THEN "occurrence" ELSE "occurrences",
                          " but found ", ToString(OccurrencesAsRead)>>)
            /\ OnlyOps(<<"read_text">>)]_vars

\* one occurrence was expected, three were found, and the file is as it was
C26_Witness ==
    /\ tool_call.name = "replace"
    /\ tool_call.expected_replacements = 1
    /\ tool_call.old_string = <<"a">>
    /\ Contains(tool_result.text, "occurrence")
    /\ Contains(tool_result.text, "3")
    /\ fs[Resolve(InFile)] = Some(<<"a", "a", "a">>)

\* C27: replace never creates or modifies a file when file_path is relative
\* or resolves outside the project root: it returns an error containing
\* "must be absolute", respectively "must be within project root", having
\* read, created and written nothing.
C27_InvalidPathRefused ==
    [][/\ (CallsReplace /\ ~IsAbsolute(CallPath)) =>
            /\ ReturnContains("must be absolute")
            /\ OnlyOps(<<>>)
       /\ (CallsReplace /\ IsAbsolute(CallPath) /\ ~ValidPath(CallPath)) =>
            /\ ReturnContains("must be within project root")
            /\ OnlyOps(<<>>)]_vars

\* a path under the root by its text but outside it once resolved was
\* refused, and the file outside the root is as it was
C27_Witness ==
    /\ tool_call.name = "replace"
    /\ tool_call.file_path = EscapingFile
    /\ Contains(tool_result.text, "must be within project root")
    /\ tool_result.ops = <<>>
    /\ fs[Resolve(EscapingFile)] = None
    /\ fs[Resolve(OutFile)] = Some(<<"a">>)

\* C28: for a valid path and count, replace refuses the two mismatched
\* cases with no read and no write: old_string = '' on a file that exists
\* returns an error containing "already exists" and leaves its content; a
\* non-empty old_string on a file that does not exist returns an error
\* containing "not found" and creates no file.
C28_MismatchedModeRefused ==
    [][(CallsReplace /\ ValidPath(CallPath) /\ CallExpected >= 1) =>
        /\ (CallOld = <<>> /\ Present(ContentBefore(CallPath))) =>
                /\ ReturnContains("already exists")
                /\ OnlyOps(<<>>)
        /\ (CallOld # <<>> /\ ~Present(ContentBefore(CallPath))) =>
                /\ ReturnContains("not found")
                /\ ~Present(ContentAfter(CallPath))
                /\ OnlyOps(<<>>)]_vars

\* a create was refused on a file that exists, which kept its content
C28_Witness ==
    /\ tool_call.name = "replace"
    /\ tool_call.old_string = <<>>
    /\ tool_call.file_path = InFile
    /\ Contains(tool_result.text, "already exists")
    /\ fs[Resolve(InFile)] = Some(<<"b", "a", "b", "a">>)

-----------------------------------------------------------------------------
(* The git_command tool (src/tools/git.py) *)

\* a whitespace-separated token of a command: its text and its characters
Word(name, chars) == [name |-> name, chars |-> chars]

\* `sub in text` of Python for two strings
IsSubstring(sub, text) ==
    \E i \in 1 .. Len(text) - Len(sub) + 1 :
        SubSeq(text, i, i + Len(sub) - 1) = sub

\* allowed_commands, line 28
allowed_commands ==
    { Word("status", <<"s", "t", "a", "t", "u", "s">>),
      Word("log", <<"l", "o", "g">>),
      Word("diff", <<"d", "i", "f", "f">>),
      Word("show", <<"s", "h", "o", "w">>),
      Word("branch", <<"b", "r", "a", "n", "c", "h">>),
      Word("remote", <<"r", "e", "m", "o", "t", "e">>),
      Word("config", <<"c", "o", "n", "f", "i", "g">>),
      Word("pull", <<"p", "u", "l", "l">>),
      Word("push", <<"p", "u", "s", "h">>) }

\* the tokens a command starts with: the allowed ones and others
FirstWords ==
    allowed_commands \cup
    { Word("commit", <<"c", "o", "m", "m", "i", "t">>),
      Word("rm", <<"r", "m">>),
      Word("reflog", <<"r", "e", "f", "l", "o", "g">>),
      Word("status;rm", <<"s", "t", "a", "t", "u", "s", ";", "r", "m">>),
      Word("clean", <<"c", "l", "e", "a", "n">>) }

\* tokens a command continues with
ArgumentWords ==
    { Word("--oneline", <<"-", "-", "o", "n", "e", "l", "i", "n", "e">>),
      Word("-f", <<"-", "f">>) }

\* command.split() of the commands a call is made with
GitCommands ==
    {<<>>} \cup {<<w>> : w \in FirstWords}
           \cup {<<w, a>> : w \in FirstWords, a \in ArgumentWords}

\* line 29: any(cmd in command.split()[0] for cmd in allowed_commands)
PassesValidation(words) ==
    \E cmd \in allowed_commands : IsSubstring(cmd.chars, Head(words).chars)

\* how the subprocess of lines 33-40 ends
ProcessOutcomes == {"exit_0", "exit_1", "timeout"}

\* lines 42-51: the text returned for an outcome of the subprocess
GitReturn(outcome) ==
    IF outcome = "exit_0" THEN <<"output">>
    ELSE IF outcome = "exit_1"
         THEN <<"Git command failed with return code ", "1", ": ", "error">>
    ELSE <<"Error: ", "Git command timed out after ", "30", " seconds">>

\* lines 33-38: the shell line create_subprocess_shell is given
ShellLine(words) == <<"git">> \o [i \in 1 .. Len(words) |-> words[i].name]

\* git_command(command), lines 14-53
GitCommand(words) ==
    /\ n_calls < MaxCalls
    /\ tool_call' = [name |-> "git_command", command |-> words]
    /\ n_calls' = n_calls + 1
    /\ IF words = <<>>
       THEN \* command.split()[0] raises IndexError, caught at line 52
            /\ tool_result' =
                    [text |-> <<"Error executing Git command: ",
                                "list index out of range">>,
                     ops |-> <<>>]
            /\ procs' = procs
       ELSE IF ~PassesValidation(words)
       THEN /\ tool_result' =
                    [text |-> <<"Error: ", "Command '", Head(words).name,
                                "' ", "is not allowed for security reasons">>,
                     ops |-> <<>>]
            /\ procs' = procs
       ELSE /\ procs' = Append(procs, ShellLine(words))
            /\ \E outcome \in ProcessOutcomes :
                    tool_result' = [text |-> GitReturn(outcome), ops |-> <<>>]
    /\ UNCHANGED fs
    /\ UNCHANGED <<dec_vars, loop_vars, life_vars>>

InitGit ==
    /\ AgentIdle
    /\ ToolsIdle

NextGit == \E words \in GitCommands : GitCommand(words)

SpecGit == InitGit /\ [][NextGit]_vars

-----------------------------------------------------------------------------
(* C29 *)

\* this step is a call of git_command
CallsGit == n_calls' = n_calls + 1 /\ tool_call'.name = "git_command"

\* the first whitespace-separated token of the command is an allowed command
FirstTokenAllowed ==
    /\ tool_call'.command # <<>>
    /\ Head(tool_call'.command) \in allowed_commands

\* this step launched a subprocess
Launches == procs' # procs

\* C29 as stated: git_command launches a git subprocess only when the first
\* whitespace-separated token of command is one of the allowed commands; for
\* any other first token it returns the "is not allowed for security
\* reasons" error and executes nothing.
C29_OnlyAllowedCommandsRun ==
    [][CallsGit =>
        /\ Launches => FirstTokenAllowed
        /\ (tool_call'.command # <<>> /\ ~FirstTokenAllowed) =>
                /\ ReturnContains("is not allowed for security reasons")
                /\ ~Launches]_vars

-----------------------------------------------------------------------------
(* src/tools/search.py: web_search *)

\* an element "a.result__a" of a result: its text and its href; the href is
\* either the target itself or DuckDuckGo's redirect wrapper "/l/?...", whose
\* query may or may not carry the target in "uddg"
Anchor(title, wrapped, target) ==
    [title |-> title, wrapped |-> wrapped, target |-> target]

\* an element "div.result" of the search page: select_one finds its anchor
\* and its "a.result__snippet" or it does not
Div(a, sn) == [a |-> a, sn |-> sn]

\* the results a search page is built from
Divs ==
    { Div(Some(Anchor("A", FALSE, Some("http://a"))), Some("sa")),
      Div(Some(Anchor("B", TRUE, Some("http://b"))), None),
      Div(None, Some("sx")),
      Div(Some(Anchor("C", TRUE, None)), Some("sc")) }

\* how many div.result elements a search page has
PageLengths == 0 .. 2

\* soup.select("div.result"), line 63
Pages == UNION { [1 .. n -> Divs] : n \in PageLengths }

\* the argument k
Ks == 0 .. 2

\* the answer of the search page's GET, line 57
FetchOutcomes == {"html", "ClientError"}

\* what scraping one hit meets, lines 145-170: paragraphs (or an extractor's
\* text), nothing at all, an exception inside the try, or an exception that
\* `except Exception` does not catch and gather hands back as a result
ScrapeOutcomes == {"text", "empty", "raises", "escapes"}

\* soup.select("div.result")[:k] for k >= 0, line 63
Slice(divs, k) == SubSeq(divs, 1, IF k < Len(divs) THEN k ELSE Len(divs))

\* line 65: if not a: continue
HasAnchor(res) == Present(res.a)

\* line 69 raises KeyError: the wrapper's query has no "uddg"
NoUddg(res) ==
    /\ HasAnchor(res)
    /\ Val(res.a).wrapped
    /\ ~Present(Val(res.a).target)

\* lines 67-69: the href, with the redirect wrapper stripped
Href(res) == Val(Val(res.a).target)

\* lines 70-76: (title, href, snippet or "")
Hit(res) ==
    [title |-> Val(res.a).title,
     url |-> Href(res),
     snip |-> IF Present(res.sn) THEN Val(res.sn) ELSE ""]

\* ddg_search(log, query, k, debug) on a fetched page, lines 61-78
ddg_search(html, k) ==
    LET first == Slice(html, k)
    IN  IF \E i \in 1 .. Len(first) : NoUddg(first[i])
        THEN [raised |-> TRUE, exc |-> "KeyError"]
        ELSE LET kept == SelectSeq(first, HasAnchor)
             IN  [raised |-> FALSE,
                  hits |-> [i \in 1 .. Len(kept) |-> Hit(kept[i])]]

\* a body gather returns: a str, or an exception object
Str(s) == [isstr |-> TRUE, val |-> s]
ExceptionObject == [isstr |-> FALSE]

\* mutant of scrape: a caught failure returns the error's text
scrape_ErrorText(outcome, fallback) ==
    CASE outcome = "text" -> Str("body")
      [] outcome = "empty" -> Str(fallback)
      [] outcome = "raises" -> Str("error")
      [] outcome = "escapes" -> ExceptionObject

\* scrape(log, session, url, fallback), lines 145-170, as gather with
\* return_exceptions=True sees it (lines 185-188)
scrape(outcome, fallback) ==
    CASE outcome = "text" -> Str("body")
      [] outcome = "empty" -> Str(fallback)
      [] outcome = "raises" -> Str(fallback)
      [] outcome = "escapes" -> ExceptionObject

\* lines 189-192
Out(links, bodies) ==
    [i \in 1 .. Len(links) |->
        [title |-> links[i].title,
         url |-> links[i].url,
         snippet |-> IF bodies[i].isstr THEN bodies[i].val ELSE ""]]

\* web_search(query, k), lines 181-198
WebSearch(k, fetched, html) ==
    /\ n_calls < MaxCalls
    /\ n_calls' = n_calls + 1
    /\ IF fetched # "html"
       THEN /\ tool_call' = [name |-> "web_search", k |-> k,
                             fetched |-> fetched, html |-> <<>>,
                             scraped |-> <<>>]
            /\ tool_result' = [raised |-> TRUE, exc |-> fetched]
       ELSE LET links == ddg_search(html, k)
            IN  IF links.raised
                THEN /\ tool_call' = [name |-> "web_search", k |-> k,
                                      fetched |-> fetched, html |-> html,
                                      scraped |-> <<>>]
                     /\ tool_result' = [raised |-> TRUE, exc |-> links.exc]
                ELSE \E scraped \in [1 .. Len(links.hits) -> ScrapeOutcomes] :
                        LET bodies ==
                                [i \in 1 .. Len(links.hits) |->
                                    scrape(scraped[i], links.hits[i].snip)]
                        IN  /\ tool_call' =
                                    [name |-> "web_search", k |-> k,
                                     fetched |-> fetched, html |-> html,
                                     scraped |-> scraped]
                            /\ tool_result' =
                                    [raised |-> FALSE,
                                     out |-> Out(links.hits, bodies)]
    /\ UNCHANGED <<fs, procs>>
    /\ UNCHANGED <<dec_vars, loop_vars, life_vars>>

InitSearch ==
    /\ AgentIdle
    /\ ToolsIdle

NextSearch ==
    \E k \in Ks, fetched \in FetchOutcomes, html \in Pages :
        WebSearch(k, fetched, html)

SpecSearch == InitSearch /\ [][NextSearch]_vars

-----------------------------------------------------------------------------
(* C30 *)

\* this step is a call of web_search
CallsSearch == n_calls' = n_calls + 1 /\ tool_call'.name = "web_search"

\* the search page was fetched and its first k results were read: the
\* search itself did not fail
SearchSucceeded ==
    /\ tool_call'.fetched = "html"
    /\ \A i \in 1 .. Len(tool_call'.html) :
            i <= tool_call'.k => ~NoUddg(tool_call'.html[i])

\* the hits of the search page, in page order
SearchHits == SelectSeq(tool_call'.html, HasAnchor)

\* the search-page snippet of a hit, "" when the page shows none
SearchPageSnippet(res) == IF Present(res.sn) THEN Val(res.sn) ELSE ""

\* scraping the i-th returned hit failed
ScrapeFailed(i) == tool_call'.scraped[i] \in {"raises", "escapes"}

-----------------------------------------------------------------------------
(* C31: the text answering a call of a name the registry does not hold *)

\* the Message at position p answers a call whose name is not registered
AnswersMissingTool(p) ==
    /\ messages[p].role = "tool"
    /\ messages[p].name \notin ToolNames

\* the tool name the text of the Message at p starts with
NamedInText(p) == Head(messages[p].content)

\* C31 as stated: in SelfImprovingAgent.__call__, the tool Message appended
\* for each call whose name is absent from the registry names that call's
\* own tool name (the name of the Message's name field), whatever the names
\* of the other calls in the turn.
C31_MissingToolNamesOwnName ==
    agent = "SelfImprovingAgent" =>
        \A p \in 1 .. Len(messages) :
            AnswersMissingTool(p) => NamedInText(p) = messages[p].name

-----------------------------------------------------------------------------
(* C32: the tool calls of a turn under asyncio.gather *)

\* the loop of SelfImprovingAgent is between the turn's Message and the
\* request that follows its tool Messages
HandlingCalls == pc \in {"prepare", "gather"}

\* one coroutine per call of the turn has been created
AllCreated == Len(tasks) = Len(Calls)

\* every coroutine of the turn has returned
AllCompleted == \A i \in 1 .. Len(tasks) : tasks[i].state = "done"

\* the step appended one tool Message per call of the turn, and nothing else
AppendedWholeTurn ==
    /\ Len(messages') = Len(messages) + Len(Calls)
    /\ IsPrefix(messages, messages')
    /\ \A k \in 1 .. Len(Calls) :
            /\ messages'[Len(messages) + k].role = "tool"
            /\ messages'[Len(messages) + k].tool_call_id = Calls[k].id

\* C32: in SelfImprovingAgent.__call__ the invocations of a turn are all
\* created before any runs, and they complete in any order; no tool Message
\* of the turn is appended and no next request is issued until every
\* invocation of the turn has completed: the tool Messages of a turn are
\* appended all together or not at all.
C32_GatherAllOrNothing ==
    [][(agent = "SelfImprovingAgent" /\ HandlingCalls) =>
        /\ invoked' # invoked => AllCreated
        /\ completed' # completed => AllCreated
        /\ n_requests' = n_requests
        /\ messages' # messages =>
                /\ AllCreated
                /\ AllCompleted
                /\ AppendedWholeTurn
        /\ pc' = "get_response" =>
                /\ AllCreated
                /\ AllCompleted
                /\ AppendedWholeTurn]_vars

\* the second invocation of a turn has completed while the first is still
\* pending, and no tool Message has been appended
C32_Witness ==
    /\ agent = "SelfImprovingAgent"
    /\ pc = "gather"
    /\ Len(tasks) = 2
    /\ tasks[1].state = "pending"
    /\ tasks[2].state = "done"
    /\ completed = <<2>>
    /\ Last(messages).role = "assistant"

-----------------------------------------------------------------------------
(* C33: what decides that tools are dispatched *)

\* this step is a turn whose get_response returned a Message
TurnReturnsMessage == n_requests' = n_requests + 1 /\ gr_pc' = "returned"

\* a fragment of the stream carried finish_reason = "tool_calls"
MarkedForToolCalls(lines) ==
    \E i \in 1 .. Len(lines) :
        lines[i].frag.finish_reason = Some("tool_calls")

\* the same lines with every turn-completion marker taken out
WithoutFinishReason(lines) ==
    [i \in 1 .. Len(lines) |-> [lines[i] EXCEPT !.frag.finish_reason = None]]

\* C33: the loop decides whether to dispatch tools only from the completed
\* Message: tools are dispatched if and only if the Message get_response
\* returned has a non-empty tool_calls list, whether or not a fragment
\* carried finish_reason = "tool_calls"; the finish_reason value never
\* changes the accumulated tool_calls.
C33_DispatchDecidedByMessage ==
    [][/\ TurnReturnsMessage =>
            /\ Dispatching' <=> ListOf(Last(messages').tool_calls) # <<>>
            /\ Last(messages').tool_calls =
                    FoldedMessage(WithoutFinishReason(received')).tool_calls
       /\ (Dispatching' /\ ~Dispatching) => TurnReturnsMessage
       /\ invoked' # invoked => Dispatching]_vars

\* a Message with a tool call is being dispatched although no fragment of its
\* stream carried finish_reason = "tool_calls"
C33_Witness ==
    /\ pc = "dispatch"
    /\ ListOf(response.tool_calls) # <<>>
    /\ received # <<>>
    /\ ~MarkedForToolCalls(received)
    /\ Last(messages) = response

-----------------------------------------------------------------------------
(* C34: the shape of the ConversationState *)

\* the Message at position p is the prompt the agent was constructed with
IsInitialPrompt(p) ==
    \/ p = 1
    \/ p = 2 /\ messages[1].role = "system"

\* the assistant Message at q holds a call with the id and name of the tool
\* Message at p
Requested(q, p) ==
    /\ messages[q].role = "assistant"
    /\ \E k \in 1 .. Len(ListOf(messages[q].tool_calls)) :
            /\ ListOf(messages[q].tool_calls)[k].id = messages[p].tool_call_id
            /\ ListOf(messages[q].tool_calls)[k].function.name
                    = messages[p].name

\* the tool Message at p follows an assistant Message that requested it, with
\* only tool Messages in between
FollowsItsRequest(p) ==
    \E q \in 1 .. p - 1 :
        /\ Requested(q, p)
        /\ \A r \in q + 1 .. p - 1 : messages[r].role = "tool"

\* the user Message at p follows at once an assistant Message with no calls
FollowsFinishedTurn(p) ==
    /\ p > 1
    /\ messages[p - 1].role = "assistant"
    /\ ListOf(messages[p - 1].tool_calls) = <<>>

\* C34: in every reachable ConversationState of Agent.__call__, each tool
\* Message is preceded, with only tool Messages in between, by an assistant
\* Message whose tool_calls holds an entry with that tool Message's
\* tool_call_id and name, and every user Message other than the initial
\* prompt is immediately preceded by an assistant Message without tool calls.
C34_ConversationWellFormed ==
    agent = "Agent" =>
        \A p \in 1 .. Len(messages) :
            /\ messages[p].role = "tool" => FollowsItsRequest(p)
            /\ (messages[p].role = "user" /\ ~IsInitialPrompt(p)) =>
                    FollowsFinishedTurn(p)

\* a conversation that began with a snapshot, had a turn with two calls
\* answered, a turn without calls, and then a line of the user
C34_Witness ==
    /\ agent = "Agent"
    /\ Len(messages) = 7
    /\ messages[1].role = "system"
    /\ messages[2].role = "user"
    /\ messages[3].role = "assistant"
    /\ messages[4].role = "tool"
    /\ messages[5].role = "tool"
    /\ messages[6].role = "assistant"
    /\ messages[7].role = "user"

-----------------------------------------------------------------------------
(* C35: tool_call_index and the tool_calls list *)

\* the fragment is routed to the tool-call branch and its increment lacks an id
IsContinuation(f) ==
    /\ HasToolInc(f)
    /\ ~CarriesId(Val(f.tool_calls))
    /\ ~TruthyText(f.reasoning_content)
    /\ ~EffectiveContent(f)

\* the step extended the arguments of the last entry and touched no other
ExtendedLastEntry(inc) ==
    LET before == ListOf(locals.message.tool_calls)
        after == ListOf(locals'.message.tool_calls)
    IN  /\ Len(after) = Len(before)
        /\ Front(after) = Front(before)
        /\ Last(after).id = Last(before).id
        /\ Last(after).function.arguments =
                Last(before).function.arguments \o inc.arguments

\* C35: throughout get_response, once the message has a tool_calls list,
\* tool_call_index equals len(tool_calls) - 1 after every fragment, so a
\* continuation fragment lacking an id always appends to the last (most
\* recently introduced) entry and never to an earlier one.
C35_IndexIsLastEntry ==
    [][/\ Present(locals'.message.tool_calls) =>
            locals'.tool_call_index
                = Len(Val(locals'.message.tool_calls)) - 1
       /\ (/\ ReadsFragment
           /\ IsContinuation(ThisFrag)
           /\ ListOf(locals.message.tool_calls) # <<>>) =>
                /\ gr_pc' = "streaming"
                /\ ExtendedLastEntry(Val(ThisFrag.tool_calls))]_vars

\* two calls were introduced and a continuation then extended the second
C35_Witness ==
    /\ gr_pc = "streaming"
    /\ Len(received) = 3
    /\ IsData(received[3])
    /\ IsContinuation(received[3].frag)
    /\ locals.tool_call_index = 1
    /\ Len(ListOf(locals.message.tool_calls)) = 2
    /\ Val(locals.message.tool_calls)[1].function.arguments = <<"{">>
    /\ Val(locals.message.tool_calls)[2].function.arguments = <<"{", "}">>

-----------------------------------------------------------------------------
(* C36: a stream that ends without the sentinel *)

\* this step is a turn whose stream ended with no [DONE] line: get_response
\* ran off its end and returned None
TurnFallsThrough == PostsRequest /\ gr_pc' = "fell_through"

\* C36: when the response stream ends without a [DONE] line, get_response
\* yields no Message, the unpacking in __call__ faults, and the partially
\* accumulated message is never appended to the ConversationState.
C36_UnfinishedStreamFaults ==
    [][/\ TurnFallsThrough =>
            /\ pc' = "faulted"
            /\ fault' = "unpack"
            /\ messages' = messages
            /\ response' = response
       /\ fault = "unpack" =>
            /\ messages' = messages
            /\ pc' = "faulted"]_vars

\* the stream ended after a content fragment: the loop has faulted at the
\* unpacking and the conversation does not hold the accumulated message
C36_Witness ==
    /\ pc = "faulted"
    /\ fault = "unpack"
    /\ gr_pc = "fell_through"
    /\ locals.message.content = Some(<<"c">>)
    /\ Len(messages) >= 3
    /\ \A i \in 1 .. Len(messages) : messages[i] # locals.message

-----------------------------------------------------------------------------
(* C37: the section-start signals *)

ReasoningHeader == <<_THINKING, " ">>
ToolCallsHeader == <<NL, NL, _TOOL_CALLS, " ", " ">>

\* the section-start signal of each category
HeaderOf(cat) ==
    CASE cat = "reasoning_content" -> ReasoningHeader
      [] cat = "content" -> ContentHeader
      [] cat = "tool_calls" -> ToolCallsHeader

\* the category whose increment of the fragment is applied, "none" when the
\* fragment carries no increment that is
CategoryOf(f) ==
    IF TruthyText(f.reasoning_content) THEN "reasoning_content"
    ELSE IF EffectiveContent(f) THEN "content"
    ELSE IF HasToolInc(f) THEN "tool_calls"
    ELSE "none"

\* what the increment of the fragment writes once its section has started
IncrementText(f) ==
    CASE CategoryOf(f) = "reasoning_content" -> ReasoningOf(f)
      [] CategoryOf(f) = "content" -> ContentOf(f)
      [] CategoryOf(f) = "tool_calls" ->
            <<Val(f.tool_calls).name, "(">> \o Val(f.tool_calls).arguments

\* how many times the signal was written
TimesWritten(header, out) ==
    Cardinality({i \in 1 .. Len(out) : out[i] = header})

\* an increment of the category was met earlier in the stream
MetBefore(cat) == \E i \in 1 .. Len(Frags) : CategoryOf(Frags[i]) = cat

\* what this step wrote
WrittenNow == SubSeq(locals'.out, Len(locals.out) + 1, Len(locals'.out))

\* C37: within one turn each section-start signal (start of reasoning, of
\* content, of tool calls) is emitted at most once, and it is emitted
\* immediately before the first increment of its category is applied, even
\* when the stream returns to a category after another one has intervened.
C37_SectionSignalledOnceBeforeFirstIncrement ==
    [][/\ \A cat \in Categories :
            TimesWritten(HeaderOf(cat), locals'.out) <= 1
       /\ ReadsFragment =>
            \A cat \in Categories :
                IF CategoryOf(ThisFrag) = cat /\ ~MetBefore(cat)
                THEN /\ Len(WrittenNow) >= 1
                     /\ WrittenNow[1] = HeaderOf(cat)
                     /\ gr_pc' = "streaming" =>
                            /\ Len(WrittenNow) >= 2
                            /\ WrittenNow[2] = IncrementText(ThisFrag)
                ELSE TimesWritten(HeaderOf(cat), WrittenNow) = 0
       /\ ~ReadsFragment =>
            \A cat \in Categories :
                TimesWritten(HeaderOf(cat), locals'.out)
                    = TimesWritten(HeaderOf(cat), locals.out)]_vars

\* the stream went from reasoning to content and back to reasoning: the
\* reasoning signal was written once, before the first increment
C37_Witness ==
    /\ gr_pc = "streaming"
    /\ Len(received) = 3
    /\ locals.out = <<ReasoningHeader, <<"r">>, ContentHeader, <<"c">>, <<"r">>>>
    /\ locals.message.reasoning_content = Some(<<"r", "r">>)

-----------------------------------------------------------------------------
(* SelfImprovingAgent as an async context manager: __aenter__, __aexit__    *)
(* and the background task _self_improvement_loop                            *)
(* (src/core/SelfImprovingAgent.py), over Agent.__aenter__ / __aexit__       *)

\* interactions the loop wants before it runs a cycle, line 155
MinInteractions == 10

\* the awaits of _perform_self_improvement_cycle, in order: analyze_trends
\* (179), analyze_performance (188), identify_improvement_opportunities
\* (191), generate_improvement_plan (200), validate_improvement (207),
\* action.execute (213), record_success / record_failure (215, 222),
\* action.rollback (227, 233)
CycleAwaits ==
    <<"analyze", "reflect", "identify", "plan", "validate", "execute",
      "record", "rollback">>

\* task.done()
Done(task) == task.state \in {"finished", "cancelled"}

\* the task moves on by itself only while no cancellation is pending: once
\* cancel() is called its next resumption raises CancelledError
Runs(states) ==
    /\ improvement_task.state \in states
    /\ ~improvement_task.must_cancel

\* the while test of line 147, then the sleep of line 149
BackToLoop ==
    IF _should_stop_improvement THEN "finished" ELSE "sleeping"

\* Agent.__aenter__ (lines 70-83) opens the transports, and
\* SelfImprovingAgent.__aenter__ (lines 37-42) creates the background task
Aenter ==
    /\ ctx = "constructed"
    /\ transports' = "open"
    /\ improvement_task' =
            IF enable_self_improvement
            THEN [NoTask EXCEPT !.state = "created"] ELSE NoTask
    /\ ctx' = "body"
    /\ UNCHANGED <<enable_self_improvement, _should_stop_improvement,
                   interaction_count>>
    /\ UNCHANGED <<dec_vars, loop_vars, tool_vars>>

\* the body of `async with`: __call__ completes a round with the user,
\* line 112
Interact ==
    /\ ctx = "body"
    /\ interaction_count < MinInteractions
    /\ interaction_count' = interaction_count + 1
    /\ UNCHANGED <<ctx, transports, enable_self_improvement,
                   _should_stop_improvement, improvement_task>>
    /\ UNCHANGED <<dec_vars, loop_vars, tool_vars>>

\* task.cancel(): nothing for a task that is done, else a pending
\* cancellation
CancelTask(task) ==
    IF Done(task) THEN task
    ELSE [task EXCEPT !.must_cancel = TRUE, !.cancelled_in = task.state]

\* the body ends and __aexit__ runs up to its await, lines 45-50 (or, with
\* self-improvement disabled, to line 53)
AexitCancels ==
    /\ ctx = "body"
    /\ IF enable_self_improvement
       THEN /\ _should_stop_improvement' = TRUE
            /\ improvement_task' = CancelTask(improvement_task)
            /\ ctx' = "awaiting"
       ELSE /\ UNCHANGED <<_should_stop_improvement, improvement_task>>
            /\ ctx' = "base_aexit"
    /\ UNCHANGED <<transports, enable_self_improvement, interaction_count>>
    /\ UNCHANGED <<dec_vars, loop_vars, tool_vars>>

\* AwaitTask going on without the task having finished
AwaitTask_NoWait ==
    /\ ctx = "awaiting"
    /\ ctx' = "base_aexit"
    /\ UNCHANGED <<transports, enable_self_improvement,
                   _should_stop_improvement, interaction_count,
                   improvement_task>>
    /\ UNCHANGED <<dec_vars, loop_vars, tool_vars>>

\* `await self.improvement_task`, lines 49-52: resumes when the task is done,
\* with its result or with CancelledError, which is passed over
AwaitTask ==
    /\ ctx = "awaiting"
    /\ Done(improvement_task)
    /\ ctx' = "base_aexit"
    /\ UNCHANGED <<transports, enable_self_improvement,
                   _should_stop_improvement, interaction_count,
                   improvement_task>>
    /\ UNCHANGED <<dec_vars, loop_vars, tool_vars>>

\* Agent.__aexit__, lines 85-91: the transports are closed
BaseAexit ==
    /\ ctx = "base_aexit"
    /\ transports' = "closed"
    /\ ctx' = "exited"
    /\ UNCHANGED <<enable_self_improvement, _should_stop_improvement,
                   interaction_count, improvement_task>>
    /\ UNCHANGED <<dec_vars, loop_vars, tool_vars>>

\* the task changes state and nothing else does
TaskBecomes(state) ==
    /\ improvement_task' = [improvement_task EXCEPT !.state = state]
    /\ UNCHANGED <<ctx, transports, enable_self_improvement,
                   _should_stop_improvement, interaction_count>>
    /\ UNCHANGED <<dec_vars, loop_vars, tool_vars>>

\* the task is first run: lines 147-149
BgStart ==
    /\ Runs({"created"})
    /\ TaskBecomes(BackToLoop)

\* the sleep of line 149 ends: lines 151-163
BgWake ==
    /\ Runs({"sleeping"})
    /\ \E six_hours_passed \in BOOLEAN :
        TaskBecomes(
            IF _should_stop_improvement THEN "finished"
            ELSE IF interaction_count < MinInteractions THEN BackToLoop
            ELSE IF ~six_hours_passed THEN BackToLoop
            ELSE CycleAwaits[1])

\* an await of the cycle returns and the cycle reaches its next await
BgCycleStep ==
    /\ \E i \in 1 .. Len(CycleAwaits) - 1 :
            /\ Runs({CycleAwaits[i]})
            /\ \E j \in i + 1 .. Len(CycleAwaits) : TaskBecomes(CycleAwaits[j])

\* the cycle returns: it is complete, it returns early (lines 185, 197), or
\* an exception is caught at line 242
BgCycleReturns ==
    /\ Runs({CycleAwaits[i] : i \in 1 .. Len(CycleAwaits)})
    /\ TaskBecomes(BackToLoop)

\* an exception reaches the handler of lines 168-170, which sleeps
BgLoopError ==
    /\ Runs({CycleAwaits[i] : i \in 1 .. Len(CycleAwaits)})
    /\ TaskBecomes("backoff")

\* the sleep of line 170 ends
BgBackoffEnds ==
    /\ Runs({"backoff"})
    /\ TaskBecomes(BackToLoop)

\* the pending cancellation is delivered. A task that never ran is
\* cancelled; CancelledError raised at an await inside the try of lines
\* 148-163 passes the `except Exception` clauses of the cycle and is caught
\* at line 165, where the loop breaks; raised at the sleep of line 170,
\* inside a handler, it leaves the coroutine
BgCancelled ==
    /\ improvement_task.must_cancel
    /\ ~Done(improvement_task)
    /\ improvement_task' =
            [improvement_task EXCEPT
                !.must_cancel = FALSE,
                !.state = IF improvement_task.state \in {"created", "backoff"}
                          THEN "cancelled" ELSE "finished"]
    /\ UNCHANGED <<ctx, transports, enable_self_improvement,
                   _should_stop_improvement, interaction_count>>
    /\ UNCHANGED <<dec_vars, loop_vars, tool_vars>>

InitExit ==
    /\ gr_pc = "idle"
    /\ received = <<>>
    /\ locals = InitLocals
    /\ n_sessions = 0
    /\ agent = "SelfImprovingAgent"
    /\ InitLoop
    /\ ToolsIdle
    /\ ctx = "constructed"
    /\ transports = "unopened"
    /\ enable_self_improvement \in BOOLEAN
    /\ _should_stop_improvement = FALSE
    /\ interaction_count = 0
    /\ improvement_task = NoTask

NextExit ==
    \/ Aenter
    \/ Interact
    \/ AexitCancels
    \/ AwaitTask
    \/ BaseAexit
    \/ BgStart
    \/ BgWake
    \/ BgCycleStep
    \/ BgCycleReturns
    \/ BgLoopError
    \/ BgBackoffEnds
    \/ BgCancelled

SpecExit == InitExit /\ [][NextExit]_vars

-----------------------------------------------------------------------------
(* C38 *)

\* this step closes the transports
ClosesTransports == transports # "closed" /\ transports' = "closed"

\* cancel() was called on the task, or the task was done when it would be
CancelWasCalled ==
    \/ improvement_task.cancelled_in # "none"
    \/ _should_stop_improvement /\ Done(improvement_task)

\* C38: when self-improvement is enabled, SelfImprovingAgent.__aexit__
\* cancels the background task and waits for it to finish before the base
\* Agent teardown closes the transports; after __aexit__ returns the task is
\* done, whatever state (sleeping, mid-cycle) it was in.
C38_TaskDoneBeforeTeardown ==
    [][enable_self_improvement =>
        /\ ClosesTransports =>
                /\ CancelWasCalled
                /\ Done(improvement_task)
        /\ ctx' = "exited" => Done(improvement_task')
        /\ Done(improvement_task) => improvement_task' = improvement_task]_vars

\* __aexit__ has returned with the transports closed; cancel() found the task
\* in the middle of a cycle, awaiting action.execute, and the task is done
C38_Witness ==
    /\ enable_self_improvement
    /\ ctx = "exited"
    /\ transports = "closed"
    /\ improvement_task.cancelled_in = "execute"
    /\ Done(improvement_task)

====
